---- MODULE Spec2Model ----
(***************************************************************************)
(* A model of the qk chain-build command (qk pack): configuration items,  *)
(* dependency validation and topological ordering, per-item execution     *)
(* with manifest snapshot/restore, serial and parallel command stages run *)
(* through the ProcessManager, and the on-disk session file.              *)
(***************************************************************************)
EXTENDS Integers, Sequences, FiniteSets, TLC

VARIABLES
    call,             \* a call of a utility function: its arguments and result
    config,           \* the parsed content of the configuration file
    items,            \* the item list loadConfig returned (run's `items`)
    pc,               \* where the main control flow of run/executeChain stands
    err,              \* the error being thrown ("none" when there is none)
    sortCalled,       \* TRUE once executeChain has called topologicalSort
    sorted,           \* executeChain's sortedItems
    idx,              \* position of the for-loop of executeChain in sortedItems
    stage,            \* executeCommands' loop index i (1-based)
    manifest,         \* package.json content of every item directory
    manifest0,        \* the content every package.json had before the run
    snapshot,         \* originalPackageJsonContent of the item being executed
    tgz,              \* per directory: does it hold a .tgz file
    outputs,          \* executeChain's dependencyOutputs
    procs,            \* every child spawned so far, in spawn order (index = pid)
    childProcesses,   \* ProcessManager.childProcesses (pids of the handles)
    parallelGroups,   \* ProcessManager.parallelGroups, in creation order
    parResult,        \* what the last executeCommandsParallel call returned
    session,          \* the session file of the configuration
    sessionStarted,   \* ProcessManager.sessionStarted (currentConfigName set)
    exit,             \* how the main process ended ("no" while it runs)
    now,              \* the system clock read by new Date()
    added,            \* the records passed to addProcess since createSession
    watch             \* what the last pack-watch invocation did

\* the variables no step of the chain-build command touches
toolVars == <<now, added, watch>>

vars == <<call, config, items, pc, err, sortCalled, sorted, idx, stage, manifest, manifest0,
          snapshot, tgz, outputs, procs, childProcesses, parallelGroups,
          parResult, session, sessionStarted, exit, now, added, watch>>

(***************************************************************************)
(* Bounds and input domains                                                *)
(***************************************************************************)
\* longest item list of the dependency-ordering specification
MaxItems == 3

\* item names a configuration may use
Names == {"a", "b", "c"}

\* a depends_on value that names no item of any list
Missing == "x"

\* an absent depends_on (undefined / null / ""): falsy in the source
NoDep == "none"

Range(s) == {s[i] : i \in DOMAIN s}

(***************************************************************************)
(* JavaScript Map: keys in first-insertion order, last value set wins      *)
(***************************************************************************)
EmptyMap == [keys |-> <<>>, val |-> <<>>]

MapHas(m, k) == k \in Range(m.keys)

MapSet(m, k, v) ==
    [keys |-> IF MapHas(m, k) THEN m.keys ELSE Append(m.keys, k),
     val  |-> (k :> v) @@ m.val]

MapGet(m, k) == m.val[k]

(***************************************************************************)
(* validateDependencies                                                    *)
(***************************************************************************)
Truthy(d) == d # NoDep

\* nameToIndex.has(n)
HasName(its, n) == \E i \in DOMAIN its : its[i].name = n

\* items.find(i => i.name === itemName): index of the first match, 0 if none
FindItem(its, n) ==
    IF HasName(its, n)
    THEN CHOOSE i \in DOMAIN its :
            its[i].name = n /\ \A j \in DOMAIN its : its[j].name = n => i <= j
    ELSE 0

\* the existence check made on the item's own name instead of its depends_on
FirstMissingOwnName(its) ==
    LET bad == {i \in DOMAIN its :
                   Truthy(its[i].depends_on) /\ ~HasName(its, its[i].name)}
    IN  IF bad = {} THEN 0 ELSE CHOOSE i \in bad : \A j \in bad : i <= j

\* first item (in list order) whose depends_on names no item, 0 if none
FirstMissing(its) ==
    LET bad == {i \in DOMAIN its :
                   Truthy(its[i].depends_on) /\ ~HasName(its, its[i].depends_on)}
    IN  IF bad = {} THEN 0 ELSE CHOOSE i \in bad : \A j \in bad : i <= j

\* detectCycle with the visited test made before the recursion-stack test
RECURSIVE detectCycleVisitedFirst(_, _, _, _)
detectCycleVisitedFirst(its, itemName, visited, recursionStack) ==
    IF itemName \in visited
    THEN [cycle |-> FALSE, at |-> NoDep, visited |-> visited]
    ELSE IF itemName \in recursionStack
    THEN [cycle |-> TRUE, at |-> itemName, visited |-> visited]
    ELSE LET item == FindItem(its, itemName)
         IN  IF item # 0 /\ Truthy(its[item].depends_on)
             THEN detectCycleVisitedFirst(its, its[item].depends_on,
                                          visited \cup {itemName},
                                          recursionStack \cup {itemName})
             ELSE [cycle |-> FALSE, at |-> NoDep,
                   visited |-> visited \cup {itemName}]

RECURSIVE detectCycle(_, _, _, _)
detectCycle(its, itemName, visited, recursionStack) ==
    IF itemName \in recursionStack
    THEN [cycle |-> TRUE, at |-> itemName, visited |-> visited]
    ELSE IF itemName \in visited
    THEN [cycle |-> FALSE, at |-> NoDep, visited |-> visited]
    ELSE LET item == FindItem(its, itemName)
         IN  IF item # 0 /\ Truthy(its[item].depends_on)
             THEN detectCycle(its, its[item].depends_on,
                              visited \cup {itemName},
                              recursionStack \cup {itemName})
             ELSE [cycle |-> FALSE, at |-> NoDep,
                   visited |-> visited \cup {itemName}]

\* for (const item of items) detectCycle(item.name)
RECURSIVE detectCycleLoop(_, _, _)
detectCycleLoop(its, i, visited) ==
    IF i > Len(its)
    THEN [cycle |-> FALSE, at |-> NoDep, visited |-> visited]
    ELSE LET r == detectCycle(its, its[i].name, visited, {})
         IN  IF r.cycle THEN r ELSE detectCycleLoop(its, i + 1, r.visited)

\* the error validateDependencies throws: kind "ok" when it returns
validateDependencies(its) ==
    LET m == FirstMissing(its)
    IN  IF m # 0
        THEN [kind |-> "missing", name |-> its[m].depends_on]
        ELSE LET c == detectCycleLoop(its, 1, {})
             IN  IF c.cycle
                 THEN [kind |-> "circular", name |-> c.at]
                 ELSE [kind |-> "ok", name |-> NoDep]

(***************************************************************************)
(* buildDependencyGraph and topologicalSort                                *)
(***************************************************************************)
RECURSIVE buildGraphFrom(_, _, _)
buildGraphFrom(its, i, graph) ==
    IF i > Len(its) THEN graph
    ELSE buildGraphFrom(its, i + 1,
            MapSet(graph, its[i].name,
                   IF Truthy(its[i].depends_on) THEN <<its[i].depends_on>>
                                                ELSE <<>>))

buildDependencyGraph(its) == buildGraphFrom(its, 1, EmptyMap)

\* new Map(items.map(item => [item.name, item])): the last item of a name wins
nameToItem(its, n) ==
    its[CHOOSE i \in DOMAIN its :
            its[i].name = n /\ \A j \in DOMAIN its : its[j].name = n => j <= i]

\* an in-degree that counts, for a node, the items that depend on it
inDegreeOfDependents(graph, name) ==
    Cardinality({k \in Range(graph.keys) :
                    \E d \in Range(MapGet(graph, k)) : d = name})

\* the in-degree of `name` after the "计算入度" loop: its own resolvable deps
inDegreeOf(graph, name) ==
    Cardinality({j \in DOMAIN MapGet(graph, name) :
                    MapHas(graph, MapGet(graph, name)[j])})

initialInDegree(graph) == [n \in Range(graph.keys) |-> inDegreeOf(graph, n)]

\* an initial queue ordered by name instead of by discovery
NameRank(n) == CHOOSE r \in 1..3 : <<"a", "b", "c">>[r] = n

zeroDegreeByName(keys, inDegree) ==
    LET zero == {keys[k] : k \in {k \in DOMAIN keys : inDegree[keys[k]] = 0}}
    IN  [p \in 1..Cardinality(zero) |->
            CHOOSE n \in zero :
                Cardinality({o \in zero : NameRank(o) < NameRank(n)}) = p - 1]

\* the names of `keys` (in order) whose degree is 0
RECURSIVE zeroDegree(_, _)
zeroDegree(keys, inDegree) ==
    IF keys = <<>> THEN <<>>
    ELSE (IF inDegree[Head(keys)] = 0 THEN <<Head(keys)>> ELSE <<>>)
         \o zeroDegree(Tail(keys), inDegree)

\* the inner for-loop of Kahn's algorithm for the dequeued `name`
RECURSIVE relax(_, _, _, _, _)
relax(graph, name, k, inDegree, queue) ==
    IF k > Len(graph.keys) THEN [inDegree |-> inDegree, queue |-> queue]
    ELSE LET otherName == graph.keys[k]
         IN  IF name \in Range(MapGet(graph, otherName))
             THEN LET newDegree == inDegree[otherName] - 1
                  IN  relax(graph, name, k + 1,
                            [inDegree EXCEPT ![otherName] = newDegree],
                            IF newDegree = 0 THEN Append(queue, otherName)
                                             ELSE queue)
             ELSE relax(graph, name, k + 1, inDegree, queue)

RECURSIVE kahn(_, _, _, _)
kahn(graph, inDegree, queue, sortedNames) ==
    IF queue = <<>> THEN sortedNames
    ELSE LET name == Head(queue)
             r    == relax(graph, name, 1, inDegree, Tail(queue))
         IN  kahn(graph, r.inDegree, r.queue, Append(sortedNames, name))

\* ok = FALSE when topologicalSort throws its emitted-count error
topologicalSort(graph, its) ==
    LET inDegree == initialInDegree(graph)
        names    == kahn(graph, inDegree, zeroDegree(graph.keys, inDegree), <<>>)
        out      == [k \in DOMAIN names |-> nameToItem(its, names[k])]
    IN  [ok |-> Len(out) = Len(its), sorted |-> out]

(***************************************************************************)
(* package.json contents and the version / dependency helpers             *)
(***************************************************************************)
\* kind: "absent" (no file), "empty" (a 0-byte file), "raw" (the user's own
\* bytes), "json" (re-serialised by JSON.stringify(.., null, 2) + "\n"),
\* "cmd" (rewritten by an external command); version: "none", "orig",
\* "alpha"; dep: per key of the dependency sections "none" when the key is
\* not listed, "orig" as the user wrote it, or the file:<path> written over it

\* the `name` the package.json of directory i declares; it is not the name
\* the configuration gives the item (ChainNames)
PackageNames == <<"@s/a", "@s/b">>

\* the keys a package.json may hold in its dependency sections
DepKeys == {"a", "b", "@s/a", "@s/b"}

\* `file:${depTgzPath}` for the artifact of directory i
FileSpecs == <<"file:/1/pkg.tgz", "file:/2/pkg.tgz">>

NoDeps   == [k \in DepKeys |-> "none"]
OrigDeps == [k \in DepKeys |-> "orig"]

ManifestAbsent == [kind |-> "absent", version |-> "none", dep |-> NoDeps]
ManifestEmpty  == [kind |-> "empty",  version |-> "none", dep |-> NoDeps]
ManifestRaw    == [kind |-> "raw",    version |-> "orig", dep |-> OrigDeps]
ManifestBare   == [kind |-> "raw",    version |-> "orig", dep |-> NoDeps]
ManifestCmd    == [kind |-> "cmd",    version |-> "orig", dep |-> OrigDeps]

\* existsSync(packageJsonPath)
existsSync(c) == c.kind # "absent"

\* JSON.parse(readFileSync(packageJsonPath)) does not throw
parses(c) == c.kind \in {"raw", "json", "cmd"}

\* readPackageVersion returns (does not throw)
readPackageVersionOk(c) == existsSync(c) /\ parses(c) /\ c.version # "none"

\* updatePackageVersion: parse, set version, write back re-serialised
updatePackageVersion(c, newVersion) ==
    [kind |-> "json", version |-> newVersion, dep |-> c.dep]

\* updatePackageDependency: rewrites the entry depName only where it is
\* listed, and writes the file back only then
updatePackageDependency(c, depName, depPath) ==
    IF c.dep[depName] # "none"
    THEN [kind |-> "json", version |-> c.version,
          dep |-> [c.dep EXCEPT ![depName] = depPath]]
    ELSE c

\* a depPackageName that is the configuration's name of the dependency
depPackageNameConfig(dep, item) == item.depends_on

\* const depPackageName = dep.packageName || item.depends_on
depPackageName(dep, item) ==
    IF dep.packageName # "none" THEN dep.packageName ELSE item.depends_on

\* the rewrite both item kinds do before their commands:
\* updatePackageDependency(dir, depPackageName, `file:${depTgzPath}`)
rewriteDependency(c, dep, item) ==
    updatePackageDependency(c, depPackageName(dep, item),
                            FileSpecs[dep.tarballPath])

\* `if (originalPackageJsonContent)`: null and "" are falsy
snapshotTruthy(c) == c.kind \notin {"absent", "empty"}

(***************************************************************************)
(* The session file and the state-store operations on it                   *)
(***************************************************************************)
\* exists: the file is there; valid: its content parses as JSON
NoSession ==
    [exists |-> FALSE, valid |-> TRUE, endedAt |-> FALSE, processes |-> <<>>,
     parallelGroups |-> <<>>, lastUpdated |-> 0]

\* a createSession that keeps the records of a well-formed earlier file
createSessionKeep ==
    [exists |-> TRUE, valid |-> TRUE, endedAt |-> FALSE,
     processes |-> IF session.valid THEN session.processes ELSE <<>>,
     parallelGroups |-> <<>>, lastUpdated |-> now]

\* createSession: a fresh document, whatever the file held before
createSession ==
    [exists |-> TRUE, valid |-> TRUE, endedAt |-> FALSE, processes |-> <<>>,
     parallelGroups |-> <<>>, lastUpdated |-> now]

\* how readSession ends: it returns null without a file, throws on a file
\* that is not valid JSON, and returns the parsed document otherwise
readSessionOutcome(s) ==
    IF ~s.exists THEN "null"
    ELSE IF ~s.valid THEN "Invalid JSON in session file"
    ELSE "document"

\* readSession: the parsed document, NoSession when it does not return one
readSession(s) == IF readSessionOutcome(s) = "document" THEN s ELSE NoSession

\* the error updateSession and addProcess end with ("none": they write)
storeError(s) ==
    IF readSessionOutcome(s) = "null" THEN "Session not found"
    ELSE IF readSessionOutcome(s) = "document" THEN "none"
    ELSE readSessionOutcome(s)

\* an updateSession that merges a processes key into the stored list
updateSessionAppend(s, data) ==
    IF readSession(s).exists
    THEN [k \in DOMAIN readSession(s) \cup DOMAIN data |->
            IF k = "lastUpdated" THEN now
            ELSE IF k = "processes" /\ k \in DOMAIN data
                 THEN readSession(s).processes \o data.processes
            ELSE IF k \in DOMAIN data THEN data[k] ELSE readSession(s)[k]]
    ELSE s

\* updateSession: {...session, ...data, lastUpdated: now}; throws (writes
\* nothing) without a file
updateSession(s, data) ==
    IF readSession(s).exists
    THEN [lastUpdated |-> now] @@ data @@ readSession(s)
    ELSE s

\* an addProcess that puts the record in front (unshift in place of push)
addProcessFront(s, processInfo) ==
    IF readSession(s).exists
    THEN [readSession(s) EXCEPT !.processes = <<processInfo>> \o @,
                                !.lastUpdated = now]
    ELSE s

\* addProcess: session.processes.push(processInfo), lastUpdated stamped
addProcess(s, processInfo) ==
    IF readSession(s).exists
    THEN [readSession(s) EXCEPT !.processes = Append(@, processInfo),
                                !.lastUpdated = now]
    ELSE s

\* endSession of the store: stamps endedAt
storeEndSession(s) == updateSession(s, [endedAt |-> TRUE])

\* addParallelGroup / updateParallelGroup: imported by process-manager.mjs
\* from state-store.mjs, which does not define them in this source tree
addParallelGroup(s, status) ==
    IF s.exists THEN [s EXCEPT !.parallelGroups = Append(@, status)] ELSE s

updateParallelGroup(s, groupId, status) ==
    IF s.exists /\ groupId \in DOMAIN s.parallelGroups
    THEN [s EXCEPT !.parallelGroups[groupId] = status] ELSE s

(***************************************************************************)
(* Configurations                                                          *)
(***************************************************************************)
\* a command without a placeholder / with a {{token}} placeholder
\* a command text is a sequence of parts: literal text and {{name}} tokens
Lit(text) == [k |-> "lit", v |-> text, p |-> 0]
Tok(name) == [k |-> "tok", v |-> name, p |-> 0]

\* the token of the chain specification: it names the item's own depends_on
DependsOn == "<depends_on>"

Plain == <<Lit("npm run build")>>
PH    == <<Lit("pnpm add "), Tok(DependsOn)>>

Serial(c)    == [par |-> FALSE, cmds |-> <<c>>]
Parallel(cs) == [par |-> TRUE,  cmds |-> cs]

\* the command lists of the chain specification
ShapeA == <<Parallel(<<Plain, Plain>>), Serial(PH)>>
ShapeB == <<Serial(Plain), Parallel(<<PH, Plain>>)>>
CommandShapes == {ShapeA, ShapeB}

\* the item names of the chain specification, by position in the list
ChainNames == <<"a", "b">>

ManifestKinds == {ManifestAbsent, ManifestEmpty, ManifestRaw, ManifestBare}

NoOutput == [tarballPath |-> 0, packageName |-> "none"]

\* the item lists of the dependency-ordering specification: any names, any
\* depends_on, no commands
SortItem(i, c) ==
    [name |-> c.name, type |-> "app", depends_on |-> c.depends_on,
     commands |-> <<>>, dir |-> i]

\* the item shapes of the dependency-ordering specification
SortShapes == [name : Names, depends_on : Names \cup {NoDep, Missing}]

\* the item lists of the chain specification: item i is named ChainNames[i]
ChainItem(i, c) ==
    [name |-> ChainNames[i], type |-> c.type, depends_on |-> c.depends_on,
     commands |-> c.commands, dir |-> i]

ChainItemLists ==
    UNION {{[i \in 1..n |-> ChainItem(i, f[i])] :
               f \in [1..n -> [type : {"package", "app"},
                               depends_on : Range(ChainNames) \cup {NoDep, Missing},
                               commands : CommandShapes]]} :
           n \in 1..Len(ChainNames)}

(***************************************************************************)
(* The configuration document and loadConfig                               *)
(***************************************************************************)
\* a field the JSON object does not have
Undefined == "<undefined>"

\* JSON values as loadConfig tells them apart: a string, a list, anything
\* else (a number stands for it), or a missing field
Str(v)  == [t |-> "string", v |-> v, l |-> <<>>]
List(l) == [t |-> "list", v |-> "", l |-> l]
Num     == [t |-> "number", v |-> "", l |-> <<>>]
Undef   == [t |-> "undefined", v |-> "", l |-> <<>>]

\* the text of the commands of the chain specification
BuildCmd == "npm run build"
AddCmd   == "pnpm add {{dep}}"

\* String.prototype.trim on the strings of the model
trim(v) == IF v = "  " THEN "" ELSE v

\* !x for a string-valued field: undefined and "" are falsy
falsy(x) == x \in {Undefined, ""}

\* a subCmd check that forgets trim()
badSubCmdNoTrim(e) == e.t # "string" \/ e.v = ""

\* !subCmd || typeof subCmd !== 'string' || !subCmd.trim()
badSubCmd(e) == e.t # "string" \/ e.v = "" \/ trim(e.v) = ""

\* the body of item.commands.forEach: does it throw for entry cmd
badCommand(cmd) ==
    IF cmd.t = "string" THEN cmd.v = "" \/ trim(cmd.v) = ""
    ELSE IF cmd.t = "list"
    THEN cmd.l = <<>> \/ \E j \in DOMAIN cmd.l : badSubCmd(cmd.l[j])
    ELSE TRUE

\* the checks of one item, in the order of the loop body; "ok" when none
\* throws
checkItem(item) ==
    IF falsy(item.name) \/ falsy(item.type) \/ falsy(item.dir)
       \/ item.commands.t = "undefined"
       \/ (item.commands.t = "string" /\ item.commands.v = "")
    THEN "missing required fields"
    ELSE IF item.commands.t # "list" THEN "commands must be an array"
    ELSE IF \E j \in DOMAIN item.commands.l : badCommand(item.commands.l[j])
    THEN "invalid command"
    ELSE IF item.type \notin {"package", "app"} THEN "invalid type"
    ELSE "ok"

\* the configuration whose top-level value is not a list
NotAList == [isArray |-> FALSE, list |-> <<>>]

ConfigList(l) == [isArray |-> TRUE, list |-> l]

\* a loadConfig that returns whatever list it finds
loadConfigUnchecked(cfg) == [ok |-> TRUE, err |-> "none", items |-> cfg.list]

\* loadConfig on the parsed document: the first item that fails a check
\* throws; on success the document's list is returned as it was parsed
loadConfig(cfg) ==
    IF ~cfg.isArray
    THEN [ok |-> FALSE, err |-> "Configuration must be an array",
          items |-> <<>>]
    ELSE IF \E i \in DOMAIN cfg.list : checkItem(cfg.list[i]) # "ok"
    THEN [ok |-> FALSE,
          err |-> checkItem(cfg.list[
                      CHOOSE i \in DOMAIN cfg.list :
                          /\ checkItem(cfg.list[i]) # "ok"
                          /\ \A j \in 1..(i - 1) : checkItem(cfg.list[j]) = "ok"]),
          items |-> <<>>]
    ELSE [ok |-> TRUE, err |-> "none", items |-> cfg.list]

\* the JSON object of an item of the chain specification
rawCommand(c) == Str(IF c = PH THEN AddCmd ELSE BuildCmd)

rawStage(st) ==
    IF st.par THEN List([j \in DOMAIN st.cmds |-> rawCommand(st.cmds[j])])
    ELSE rawCommand(st.cmds[1])

rawItem(item) ==
    [name |-> item.name, type |-> item.type, dir |-> "/d",
     commands |-> List([j \in DOMAIN item.commands |-> rawStage(item.commands[j])]),
     auto_pack |-> Undefined]

\* the configuration file the items of a chain run were loaded from
rawConfig(its) == ConfigList([i \in DOMAIN its |-> rawItem(its[i])])

\* no utility function is being called
NoCall == [fn |-> "none"]

\* no pack-watch invocation has run
NoWatch == [op |-> "none", phase |-> "done"]

\* everything but the session file and the process table
InitIdle ==
    /\ call = NoCall
    /\ pc = "start"
    /\ err = "none"
    /\ sortCalled = FALSE
    /\ sorted = <<>>
    /\ idx = 0
    /\ stage = 0
    /\ manifest0 = manifest
    /\ snapshot = ManifestAbsent
    /\ tgz = [d \in DOMAIN items |-> FALSE]
    /\ outputs = [n \in Names \cup {Missing} |-> NoOutput]
    /\ childProcesses = {}
    /\ parallelGroups = <<>>
    /\ parResult = [success |-> TRUE, failedCount |-> 0, group |-> 0]
    /\ sessionStarted = FALSE
    /\ exit = "no"
    /\ now = 0
    /\ added = <<>>
    /\ watch = NoWatch

\* no child was spawned and no session file exists
InitCommon ==
    /\ InitIdle
    /\ procs = <<>>
    /\ session = NoSession

\* configuration files loadConfig rejects
BadConfigs ==
    {NotAList,
     ConfigList(<<[name |-> Undefined, type |-> "app", dir |-> "/d",
                   commands |-> List(<<Str(BuildCmd)>>),
                   auto_pack |-> Undefined]>>),
     ConfigList(<<[name |-> "a", type |-> "lib", dir |-> "/d",
                   commands |-> List(<<Str(BuildCmd)>>),
                   auto_pack |-> Undefined]>>),
     ConfigList(<<[name |-> "a", type |-> "app", dir |-> "/d",
                   commands |-> List(<<List(<<>>)>>),
                   auto_pack |-> Undefined]>>)}

Init ==
    /\ \/ /\ items \in ChainItemLists
          /\ config = rawConfig(items)
       \/ /\ items = <<>>
          /\ config \in BadConfigs
    /\ manifest \in [DOMAIN items -> ManifestKinds]
    /\ InitCommon

InitSort ==
    /\ \E n \in 0..MaxItems :
          \E f \in [1..n -> SortShapes] :
              items = [i \in 1..n |-> SortItem(i, f[i])]
    /\ manifest = [d \in DOMAIN items |-> ManifestRaw]
    /\ config = rawConfig(items)
    /\ InitCommon

(***************************************************************************)
(* ProcessManager: registry, parallel groups, termination, cleanup         *)
(***************************************************************************)
\* proc.pid of a child whose spawn failed (undefined in the source)
NoPid == 0

\* exitCode of a handle that has not exited (null in the source)
NoCode == -1

\* process.kill(pid, sig) / proc.kill(sig) does not throw: the pid names a
\* child that runs or has exited and is not yet reaped by its 'close' handler
killSucceeds(ps, pid) ==
    pid # NoPid /\ pid \in DOMAIN ps /\ ps[pid].st \in {"running", "exited"}

\* delivery of SIGTERM to the running children among `pids`
deliverTerm(ps, pids) ==
    [k \in DOMAIN ps |->
        IF ps[k].pid \in pids /\ ps[k].st = "running"
        THEN [ps[k] EXCEPT !.termed = TRUE] ELSE ps[k]]

\* setTimeout(() => process.kill(pid, 'SIGKILL'), 3000): the timer is armed;
\* its callback (the only place `forced` would become TRUE) runs only if the
\* main process is still alive three seconds later
armKillTimer(ps, pid) ==
    [k \in DOMAIN ps |->
        IF ps[k].pid = pid THEN [ps[k] EXCEPT !.timer = TRUE] ELSE ps[k]]

\* a terminateProcess that leaves the registry alone
terminateProcessKeep(pm, pid) ==
    IF killSucceeds(pm.procs, pid)
    THEN [procs          |-> armKillTimer(deliverTerm(pm.procs, {pid}), pid),
          childProcesses |-> pm.childProcesses]
    ELSE pm

\* terminateProcess(pid) on pm = [procs, childProcesses]: SIGTERM, the
\* SIGKILL timer, then the handles of that pid leave the registry; nothing
\* when the kill throws
terminateProcess(pm, pid) ==
    IF killSucceeds(pm.procs, pid)
    THEN [procs          |-> armKillTimer(deliverTerm(pm.procs, {pid}), pid),
          childProcesses |-> {h \in pm.childProcesses : pm.procs[h].pid # pid}]
    ELSE pm

\* killGroup: for (const pid of group.pids) this.terminateProcess(pid)
RECURSIVE killPids(_, _)
killPids(pm, pids) ==
    IF pids = <<>> THEN pm
    ELSE killPids(terminateProcess(pm, Head(pids)), Tail(pids))

killGroup(pm, groups, groupId) ==
    IF groupId \in DOMAIN groups THEN killPids(pm, groups[groupId].pids) ELSE pm

\* the first loop of cleanup(): killGroup of every group still 'running'
RECURSIVE cleanupGroups(_, _, _)
cleanupGroups(pm, groups, g) ==
    IF g > Len(groups) THEN pm
    ELSE cleanupGroups(IF groups[g].status = "running"
                       THEN killGroup(pm, groups, g) ELSE pm,
                       groups, g + 1)

\* a cleanup() that signals nothing
cleanupSkipped(ps, registry, groups) ==
    [procs |-> ps, childProcesses |-> registry, parallelGroups |-> groups]

\* cleanup(): returns [procs, childProcesses, parallelGroups]
cleanup(ps, registry, groups) ==
    LET pm1 == cleanupGroups([procs |-> ps, childProcesses |-> registry],
                             groups, 1)
        processesToClean == pm1.childProcesses
        signalled == {pm1.procs[h].pid : h \in
                         {h \in processesToClean :
                             killSucceeds(pm1.procs, pm1.procs[h].pid)}}
    IN  IF processesToClean = {}
        THEN [procs |-> pm1.procs, childProcesses |-> pm1.childProcesses,
              parallelGroups |-> groups]
        ELSE [procs |-> deliverTerm(pm1.procs, signalled),
              childProcesses |-> pm1.childProcesses,
              parallelGroups |-> <<>>]

\* `if (getActiveProcessCount() > 0) cleanup()` of run
cleanupIfActive(ps, registry, groups) ==
    IF Cardinality(registry) > 0
    THEN cleanup(ps, registry, groups)
    ELSE [procs |-> ps, childProcesses |-> registry, parallelGroups |-> groups]

\* an endSession that resets the flags without the store write
pmEndSessionFlagsOnly(s, started) == s

\* the code the main process exits with
exitCode(e) == IF e = "ok" THEN 0 ELSE 1

\* ProcessManager.endSession on the session file
pmEndSession(s, started) == IF started THEN storeEndSession(s) ELSE s

\* a record whose status is left as it was at spawn time
procInfoRunning(p, status) == [pid |-> p.pid, status |-> "running", exitCode |-> p.code]

\* the ProcessRecord written for handle k
procInfo(p, status) == [pid |-> p.pid, status |-> status, exitCode |-> p.code]

\* a settled result of Promise.allSettled counts as success
resultSuccess(p) == p.st = "closed" /\ p.code = 0

\* processedResults.every(r => !r.success) in place of some
hasFailureEvery(ps, members) == \A k \in members : ~resultSuccess(ps[k])

\* processedResults.some(r => !r.success)
hasFailure(ps, members) == \E k \in members : ~resultSuccess(ps[k])

\* the length of processedResults in place of failedCommands
failedCountAll(ps, members) == Cardinality(members)

\* failedCommands.length
failedCount(ps, members) == Cardinality({k \in members : ~resultSuccess(ps[k])})

(***************************************************************************)
(* Placeholders                                                            *)
(***************************************************************************)
NoToken == "none"

\* the command text of `item`: the token of the chain specification names
\* the item's depends_on; an item without depends_on has plain commands only
commandOf(item, c) ==
    [j \in DOMAIN c |->
        IF c[j] = Tok(DependsOn)
        THEN IF Truthy(item.depends_on) THEN Tok(item.depends_on)
                                        ELSE Lit("lib.tgz")
        ELSE c[j]]

\* the properties every object literal inherits from Object.prototype
\* (constructor stands for them all)
ObjectPrototypeKeys == {"constructor"}

\* dependencyOutputs[name] on the object literal executeChain fills: an own
\* entry, else an inherited function, else undefined
lookup(outs, name) ==
    IF name \in DOMAIN outs /\ outs[name] # NoOutput THEN "own"
    ELSE IF name \in ObjectPrototypeKeys THEN "inherited"
    ELSE "undefined"

\* /\.?\/?(pnpm)\s+add\s+/.test(command)
isPnpmAdd(command) == \E j \in DOMAIN command : command[j] = Lit("pnpm add ")

\* the tokens of a command, as positions
tokens(command) == {j \in DOMAIN command : command[j].k = "tok"}

\* the callback of command.replace for the token at position j
replaceToken(command, j, outs) ==
    LET name == command[j].v
    IN  IF lookup(outs, name) = "inherited"
        THEN \* dep.tarballPath || dep: the function itself, as text
             [k |-> "function", v |-> name, p |-> 0]
        ELSE IF isPnpmAdd(command) /\ outs[name].packageName # "none"
        THEN [k |-> "pkg@file", v |-> outs[name].packageName,
              p |-> outs[name].tarballPath]
        ELSE [k |-> "path", v |-> "", p |-> outs[name].tarballPath]

\* replacePlaceholders: throws "Unknown dependency" for the first token
\* whose lookup is falsy, else returns the text with every token replaced
replacePlaceholders(command, outs) ==
    IF \E j \in tokens(command) : lookup(outs, command[j].v) = "undefined"
    THEN [ok |-> FALSE,
          token |-> command[CHOOSE j \in tokens(command) :
                        /\ lookup(outs, command[j].v) = "undefined"
                        /\ \A i \in tokens(command) :
                              lookup(outs, command[i].v) = "undefined" => j <= i].v,
          text |-> <<>>]
    ELSE [ok |-> TRUE, token |-> NoToken,
          text |-> [j \in DOMAIN command |->
                      IF j \in tokens(command)
                      THEN replaceToken(command, j, outs) ELSE command[j]]]

\* replacePlaceholders does not throw "Unknown dependency"
replacePlaceholdersOk(item, c, outs) ==
    replacePlaceholders(commandOf(item, c), outs).ok

(***************************************************************************)
(* run / executeChain: the main control flow                               *)
(***************************************************************************)
CurItem == sorted[idx]

\* the handles spawned by the stage executeCommands is waiting for
StageMembers(ps) == {k \in DOMAIN ps : ps[k].item = idx /\ ps[k].stage = stage}

\* the finally block of executePackageItem / executeAppItem
restore(item, m, snap) ==
    IF item.type = "package" \/ snapshotTruthy(snap)
    THEN [m EXCEPT ![item.dir] = snap]
    ELSE m

\* run: registerCleanupHandlers, loadConfig, startSession
Run ==
    /\ pc = "start"
    /\ IF loadConfig(config).ok
       THEN /\ sessionStarted' = TRUE
            /\ session' = createSession
            /\ pc' = "validate"
            /\ err' = err
       ELSE \* loadConfig throws: startSession is not reached
            /\ pc' = "catch"
            /\ err' = "config"
            /\ UNCHANGED <<session, sessionStarted>>
    /\ UNCHANGED <<call, config, items, sortCalled, sorted, idx, stage, manifest,
                   manifest0, snapshot, tgz, outputs, procs, childProcesses,
                   parallelGroups, parResult, exit>>
    /\ UNCHANGED toolVars

\* executeChain: validateDependencies(items)
ChainValidate ==
    /\ pc = "validate"
    /\ LET v == validateDependencies(items)
       IN  IF v.kind = "ok"
           THEN pc' = "sort" /\ err' = err
           ELSE pc' = "catch" /\ err' = v.kind
    /\ UNCHANGED <<call, config, items, sortCalled, sorted, idx, stage, manifest, manifest0,
                   snapshot, tgz, outputs, procs, childProcesses,
                   parallelGroups, parResult, session, sessionStarted, exit>>
    /\ UNCHANGED toolVars

\* executeChain: buildDependencyGraph, topologicalSort, start of the loop
ChainSort ==
    /\ pc = "sort"
    /\ sortCalled' = TRUE
    /\ LET r == topologicalSort(buildDependencyGraph(items), items)
       IN  IF r.ok
           THEN /\ sorted' = r.sorted
                /\ err' = err
                /\ IF Len(r.sorted) = 0
                   THEN pc' = "done" /\ idx' = idx
                   ELSE pc' = "item" /\ idx' = 1
           ELSE /\ sorted' = sorted
                /\ err' = "sort"
                /\ pc' = "catch"
                /\ idx' = idx
    /\ UNCHANGED <<call, config, items, stage, manifest, manifest0, snapshot, tgz, outputs,
                   procs, childProcesses, parallelGroups, parResult, session,
                   sessionStarted, exit>>
    /\ UNCHANGED toolVars

\* executePackageItem up to the call of executeCommands
BeginPackage ==
    LET item == CurItem
        c    == manifest[item.dir]
    IN  IF ~readPackageVersionOk(c)
        THEN \* readPackageVersion throws before the snapshot is taken
             /\ pc' = "threw"
             /\ err' = "manifest"
             /\ snapshot' = ManifestAbsent
             /\ UNCHANGED <<manifest, tgz, stage>>
        ELSE LET m1 == updatePackageVersion(c, "alpha")
                 m2 == IF Truthy(item.depends_on)
                          /\ outputs[item.depends_on] # NoOutput
                       THEN rewriteDependency(m1, outputs[item.depends_on], item)
                       ELSE m1
             IN  /\ snapshot' = c
                 /\ manifest' = [manifest EXCEPT ![item.dir] = m2]
                 /\ tgz' = [tgz EXCEPT ![item.dir] = FALSE]
                 /\ stage' = 1
                 /\ pc' = IF Len(item.commands) > 0 THEN "stage" ELSE "finish"
                 /\ err' = err

\* executeAppItem up to the call of executeCommands
BeginApp ==
    LET item == CurItem
        c    == manifest[item.dir]
        snap == IF existsSync(c) THEN c ELSE ManifestAbsent
    IN  /\ snapshot' = snap
        /\ tgz' = tgz
        /\ IF Truthy(item.depends_on) /\ outputs[item.depends_on] # NoOutput
           THEN IF parses(c)
                THEN /\ manifest' = [manifest EXCEPT
                                        ![item.dir] = rewriteDependency(c,
                                            outputs[item.depends_on], item)]
                     /\ stage' = 1
                     /\ pc' = IF Len(item.commands) > 0 THEN "stage" ELSE "finish"
                     /\ err' = err
                ELSE \* updatePackageDependency throws; the finally block runs
                     /\ manifest' = restore(item, manifest, snap)
                     /\ stage' = stage
                     /\ pc' = "threw"
                     /\ err' = "manifest"
           ELSE /\ manifest' = manifest
                /\ stage' = 1
                /\ pc' = IF Len(item.commands) > 0 THEN "stage" ELSE "finish"
                /\ err' = err

BeginItem ==
    /\ pc = "item"
    /\ IF CurItem.type = "package" THEN BeginPackage ELSE BeginApp
    /\ UNCHANGED <<call, config, items, sortCalled, sorted, idx, manifest0, outputs, procs,
                   childProcesses, parallelGroups, parResult, session,
                   sessionStarted, exit>>
    /\ UNCHANGED toolVars

(***************************************************************************)
(* executeCommands: one stage per step                                     *)
(***************************************************************************)
\* the handle records of the n children a stage spawns; ok[j] tells whether
\* spawn found the program of command j
spawned(n, ok, group) ==
    [j \in 1..n |->
        [item |-> idx, stage |-> stage, group |-> group,
         cmd |-> replacePlaceholders(
                     commandOf(CurItem, CurItem.commands[stage].cmds[j]),
                     outputs).text,
         pid |-> IF ok[j] THEN Len(procs) + j ELSE NoPid,
         st |-> IF ok[j] THEN "running" ELSE "spawnfail",
         code |-> NoCode, termed |-> FALSE, timer |-> FALSE,
         forced |-> FALSE]]

\* addProcess for every new handle, in spawn order
RECURSIVE addProcesses(_, _)
addProcesses(s, new) ==
    IF new = <<>> THEN s
    ELSE addProcesses(addProcess(s, procInfo(Head(new), "running")), Tail(new))

\* the loop head of executeCommands: placeholders, then the spawn of stage i
RunStage ==
    /\ pc = "stage"
    /\ LET item == CurItem
       IN  IF stage > Len(item.commands)
           THEN \* executeCommands returns
                /\ pc' = "finish"
                /\ UNCHANGED <<err, manifest, procs, childProcesses,
                               parallelGroups, session>>
           ELSE LET st == item.commands[stage]
                    n  == Len(st.cmds)
                IN  IF \E j \in 1..n : ~replacePlaceholdersOk(item, st.cmds[j], outputs)
                    THEN \* replacePlaceholders throws; the finally block runs
                         /\ pc' = "threw"
                         /\ err' = "placeholder"
                         /\ manifest' = restore(item, manifest, snapshot)
                         /\ UNCHANGED <<procs, childProcesses, parallelGroups,
                                        session>>
                    ELSE \E ok \in [1..n -> BOOLEAN] :
                         LET g   == IF st.par THEN Len(parallelGroups) + 1 ELSE 0
                             new == spawned(n, ok, g)
                             s1  == IF st.par /\ sessionStarted
                                    THEN addParallelGroup(session, "running")
                                    ELSE session
                         IN  /\ procs' = procs \o new
                             /\ childProcesses' =
                                    childProcesses \cup (Len(procs) + 1 .. Len(procs) + n)
                             /\ parallelGroups' =
                                    IF st.par
                                    THEN Append(parallelGroups,
                                                [pids |-> [j \in 1..n |-> new[j].pid],
                                                 status |-> "running"])
                                    ELSE parallelGroups
                             /\ session' = IF sessionStarted
                                           THEN addProcesses(s1, new) ELSE s1
                             /\ pc' = "await"
                             /\ UNCHANGED <<err, manifest>>
    /\ UNCHANGED <<call, config, items, sortCalled, sorted, idx, stage, manifest0, snapshot,
                   tgz, outputs, parResult, sessionStarted, exit>>
    /\ UNCHANGED toolVars

\* what an external command may do to the package.json of its directory
childWrite(c) == [kind |-> "cmd", version |-> c.version, dep |-> c.dep]

\* a running child exits with `code`; with `effect` it leaves its mark in its
\* working directory: a command of a package item leaves a .tgz file, a
\* command of an app item rewrites package.json. The run is observed until
\* the main process ends
ChildExit(k, code, effect) ==
    /\ exit = "no"
    /\ procs[k].st = "running"
    /\ procs' = [procs EXCEPT ![k].st = "exited", ![k].code = code]
    /\ LET item == sorted[procs[k].item]
       IN  IF item.type = "package"
           THEN /\ tgz' = [tgz EXCEPT ![item.dir] = @ \/ effect]
                /\ manifest' = manifest
           ELSE /\ manifest' = IF effect
                               THEN [manifest EXCEPT ![item.dir] = childWrite(@)]
                               ELSE manifest
                /\ tgz' = tgz
    /\ UNCHANGED <<call, config, items, pc, err, sortCalled, sorted, idx, stage, manifest0,
                   snapshot, outputs, childProcesses, parallelGroups,
                   parResult, session, sessionStarted, exit>>
    /\ UNCHANGED toolVars

\* every handle of the awaited stage is settled once k is
settledAfter(ps, k) == \A j \in StageMembers(ps) : j = k \/ ps[j].st = "closed"

\* proc.on('close'): the handler of executeCommand
OnClose(k) ==
    /\ pc = "await"
    /\ procs[k].st = "exited"
    /\ childProcesses' = childProcesses \ {k}
    /\ procs' = [procs EXCEPT ![k].st = "closed"]
    /\ session' = IF sessionStarted
                  THEN updateSession(session,
                           [processes |-> <<procInfo(procs[k], "stopped")>>])
                  ELSE session
    /\ pc' = IF settledAfter(procs, k) THEN "settled" ELSE "await"
    /\ UNCHANGED <<call, config, items, err, sortCalled, sorted, idx, stage, manifest,
                   manifest0, snapshot, tgz, outputs, parallelGroups,
                   parResult, sessionStarted, exit>>
    /\ UNCHANGED toolVars

\* proc.on('error'): spawn failed
OnError(k) ==
    /\ pc = "await"
    /\ procs[k].st = "spawnfail"
    /\ childProcesses' = childProcesses \ {k}
    /\ procs' = [procs EXCEPT ![k].st = "closed"]
    /\ session' = IF sessionStarted
                  THEN updateSession(session,
                           [processes |-> <<procInfo(procs[k], "stopped")>>])
                  ELSE session
    /\ pc' = IF settledAfter(procs, k) THEN "settled" ELSE "await"
    /\ UNCHANGED <<call, config, items, err, sortCalled, sorted, idx, stage, manifest,
                   manifest0, snapshot, tgz, outputs, parallelGroups,
                   parResult, sessionStarted, exit>>
    /\ UNCHANGED toolVars

\* a continuation that runs a failed stage once more before it gives up
StageSettledRetry ==
    /\ pc = "settled"
    /\ LET item    == CurItem
           st      == item.commands[stage]
           members == StageMembers(procs)
           failed  == hasFailure(procs, members)
           g       == Len(parallelGroups)
           status  == IF failed THEN "failed" ELSE "completed"
           groups1 == IF st.par
                      THEN [parallelGroups EXCEPT ![g].status = status]
                      ELSE parallelGroups
           pm      == IF st.par /\ failed
                      THEN killGroup([procs |-> procs,
                                      childProcesses |-> childProcesses],
                                     groups1, g)
                      ELSE [procs |-> procs, childProcesses |-> childProcesses]
       IN  /\ parallelGroups' = groups1
           /\ session' = IF st.par /\ sessionStarted
                         THEN updateParallelGroup(session,
                                  Len(session.parallelGroups), status)
                         ELSE session
           /\ procs' = pm.procs
           /\ childProcesses' = pm.childProcesses
           /\ parResult' = IF st.par
                           THEN [success |-> ~failed,
                                 failedCount |-> failedCount(procs, members),
                                 group |-> g]
                           ELSE parResult
           /\ IF failed /\ Cardinality(members) = Len(st.cmds)
              THEN /\ pc' = "stage"
                   /\ err' = err
                   /\ manifest' = manifest
                   /\ stage' = stage
              ELSE IF failed
              THEN /\ pc' = "threw"
                   /\ err' = "command"
                   /\ manifest' = restore(item, manifest, snapshot)
                   /\ stage' = stage
              ELSE /\ pc' = "stage"
                   /\ err' = err
                   /\ manifest' = manifest
                   /\ stage' = stage + 1
    /\ UNCHANGED <<call, config, items, sortCalled, sorted, idx, manifest0, snapshot, tgz,
                   outputs, sessionStarted, exit>>
    /\ UNCHANGED toolVars

\* the continuation of the awaited stage: the rest of executeCommandsParallel
\* (parallel) or of executeCommand (serial), then executeCommands' verdict
StageSettled ==
    /\ pc = "settled"
    /\ LET item    == CurItem
           st      == item.commands[stage]
           members == StageMembers(procs)
           failed  == hasFailure(procs, members)
           g       == Len(parallelGroups)
           status  == IF failed THEN "failed" ELSE "completed"
           groups1 == IF st.par
                      THEN [parallelGroups EXCEPT ![g].status = status]
                      ELSE parallelGroups
           pm      == IF st.par /\ failed
                      THEN killGroup([procs |-> procs,
                                      childProcesses |-> childProcesses],
                                     groups1, g)
                      ELSE [procs |-> procs, childProcesses |-> childProcesses]
       IN  /\ parallelGroups' = groups1
           /\ session' = IF st.par /\ sessionStarted
                         THEN updateParallelGroup(session,
                                  Len(session.parallelGroups), status)
                         ELSE session
           /\ procs' = pm.procs
           /\ childProcesses' = pm.childProcesses
           /\ parResult' = IF st.par
                           THEN [success |-> ~failed,
                                 failedCount |-> failedCount(procs, members),
                                 group |-> g]
                           ELSE parResult
           /\ IF failed
              THEN /\ pc' = "threw"
                   /\ err' = "command"
                   /\ manifest' = restore(item, manifest, snapshot)
                   /\ stage' = stage
              ELSE /\ pc' = "stage"
                   /\ err' = err
                   /\ manifest' = manifest
                   /\ stage' = stage + 1
    /\ UNCHANGED <<call, config, items, sortCalled, sorted, idx, manifest0, snapshot, tgz,
                   outputs, sessionStarted, exit>>
    /\ UNCHANGED toolVars

\* the end of executePackageItem / executeAppItem after executeCommands
FinishItem ==
    /\ pc = "finish"
    /\ LET item == CurItem
       IN  /\ manifest' = restore(item, manifest, snapshot)
           /\ IF item.type = "package"
                 /\ ~(parses(manifest[item.dir]) /\ tgz[item.dir])
              THEN \* findTgzFile throws
                   pc' = "threw" /\ err' = "artifact"
              ELSE pc' = "returned" /\ err' = err
    /\ UNCHANGED <<call, config, items, sortCalled, sorted, idx, stage, manifest0, snapshot,
                   tgz, outputs, procs, childProcesses, parallelGroups,
                   parResult, session, sessionStarted, exit>>
    /\ UNCHANGED toolVars

\* executeChain: the item returned; record its output, go to the next item
NextItem ==
    /\ pc = "returned"
    /\ outputs' = IF CurItem.type = "package"
                  THEN [outputs EXCEPT ![CurItem.name] =
                           [tarballPath |-> CurItem.dir,
                            packageName |-> PackageNames[CurItem.dir]]]
                  ELSE outputs
    /\ IF idx = Len(sorted)
       THEN pc' = "done" /\ idx' = idx
       ELSE pc' = "item" /\ idx' = idx + 1
    /\ UNCHANGED <<call, config, items, err, sortCalled, sorted, stage, manifest, manifest0,
                   snapshot, tgz, procs, childProcesses, parallelGroups,
                   parResult, session, sessionStarted, exit>>
    /\ UNCHANGED toolVars

\* run's catch block: cleanup if needed, endSession, process.exit(1)
RunCatch ==
    /\ pc \in {"catch", "threw"}
    /\ LET c == cleanupIfActive(procs, childProcesses, parallelGroups)
       IN  /\ procs' = c.procs
           /\ childProcesses' = c.childProcesses
           /\ parallelGroups' = c.parallelGroups
    /\ session' = pmEndSession(session, sessionStarted)
    /\ sessionStarted' = FALSE
    /\ pc' = "exited"
    /\ exit' = "error"
    /\ UNCHANGED <<call, config, items, err, sortCalled, sorted, idx, stage, manifest,
                   manifest0, snapshot, tgz, outputs, parResult>>
    /\ UNCHANGED toolVars

\* run after executeChain returned: cleanup if needed, endSession
RunEnd ==
    /\ pc = "done"
    /\ LET c == cleanupIfActive(procs, childProcesses, parallelGroups)
       IN  /\ procs' = c.procs
           /\ childProcesses' = c.childProcesses
           /\ parallelGroups' = c.parallelGroups
    /\ session' = pmEndSession(session, sessionStarted)
    /\ sessionStarted' = FALSE
    /\ pc' = "exited"
    /\ exit' = "ok"
    /\ UNCHANGED <<call, config, items, err, sortCalled, sorted, idx, stage, manifest,
                   manifest0, snapshot, tgz, outputs, parResult>>
    /\ UNCHANGED toolVars

\* the SIGINT / SIGTERM handler of registerCleanupHandlers; it runs while the
\* main flow is suspended at an await: cleanup, endSession, process.exit(1)
Signal ==
    /\ pc = "await"
    /\ LET c == cleanup(procs, childProcesses, parallelGroups)
       IN  /\ procs' = c.procs
           /\ childProcesses' = c.childProcesses
           /\ parallelGroups' = c.parallelGroups
    /\ session' = pmEndSession(session, sessionStarted)
    /\ sessionStarted' = FALSE
    /\ pc' = "exited"
    /\ exit' = "signal"
    /\ UNCHANGED <<call, config, items, err, sortCalled, sorted, idx, stage, manifest,
                   manifest0, snapshot, tgz, outputs, parResult>>
    /\ UNCHANGED toolVars

(***************************************************************************)
(* Specifications                                                          *)
(***************************************************************************)
ExitCodes == {0, 1}

Child ==
    \E k \in DOMAIN procs, code \in ExitCodes, effect \in BOOLEAN :
        ChildExit(k, code, effect)

Close == \E k \in DOMAIN procs : OnClose(k)

Error == \E k \in DOMAIN procs : OnError(k)

Next ==
    \/ Run
    \/ ChainValidate
    \/ ChainSort
    \/ BeginItem
    \/ RunStage
    \/ Child
    \/ Close
    \/ Error
    \/ StageSettled
    \/ FinishItem
    \/ NextItem
    \/ RunCatch
    \/ RunEnd
    \/ Signal

\* a chain run of items with commands
Spec == Init /\ [][Next]_vars

\* the steps a run takes when no item has commands
NextSort ==
    \/ Run
    \/ ChainValidate
    \/ ChainSort
    \/ BeginItem
    \/ FinishItem
    \/ NextItem
    \/ RunCatch
    \/ RunEnd

\* a chain run over any item list without commands
SpecSort == InitSort /\ [][NextSort]_vars

(***************************************************************************)
(* Properties of the dependency ordering (SpecSort)                        *)
(***************************************************************************)
UniqueNames(its) ==
    \A i, j \in DOMAIN its : its[i].name = its[j].name => i = j

AllResolve(its) ==
    \A i \in DOMAIN its :
        Truthy(its[i].depends_on) => HasName(its, its[i].depends_on)

\* the items an item's depends_on names
DepTargets(its, i) ==
    {j \in DOMAIN its : Truthy(its[i].depends_on) /\ its[j].name = its[i].depends_on}

\* the items reached from the set `from` in 1..n steps along depends_on
RECURSIVE ReachWithin(_, _, _)
ReachWithin(its, from, n) ==
    IF n = 0 THEN {}
    ELSE LET next == UNION {DepTargets(its, i) : i \in from}
         IN  next \cup ReachWithin(its, next, n - 1)

\* some walk along depends_on returns to an item already on it
HasCycle(its) == \E i \in DOMAIN its : i \in ReachWithin(its, {i}, Len(its))

\* validateDependencies has run
Validated == pc \notin {"start", "validate"}

\* executeChain has started no item
NoItemStarted == idx = 0 /\ procs = <<>> /\ manifest = manifest0

\* position of the item named n in the sorted list (0 when absent)
PosOf(n) ==
    IF \E p \in DOMAIN sorted : sorted[p].name = n
    THEN CHOOSE p \in DOMAIN sorted : sorted[p].name = n
    ELSE 0

\* C1: for item lists with unique names, resolvable and acyclic depends_on,
\* topologicalSort returns a permutation of the input in which every item
\* comes strictly after the item its depends_on names
C1_SortIsDependencyOrder ==
    (sortCalled /\ UniqueNames(items) /\ AllResolve(items) /\ ~HasCycle(items))
    => /\ err # "sort"
       /\ Len(sorted) = Len(items)
       /\ \A i \in DOMAIN items :
             Cardinality({p \in DOMAIN sorted : sorted[p] = items[i]}) = 1
       /\ \A p \in DOMAIN sorted :
             Truthy(sorted[p].depends_on)
             => (PosOf(sorted[p].depends_on) # 0
                 /\ PosOf(sorted[p].depends_on) < p)

\* a list of three items given in reverse dependency order has been sorted
C1_Witness ==
    /\ sortCalled
    /\ Len(items) = 3
    /\ UniqueNames(items)
    /\ items[1].depends_on = items[2].name
    /\ items[2].depends_on = items[3].name
    /\ items[3].depends_on = NoDep
    /\ Len(sorted) = 3
    /\ sorted[1] = items[3]

\* C2 as claimed: every item list with a depends_on cycle makes
\* validateDependencies fail with the circular-dependency error, and
\* executeChain then neither sorts nor starts an item
C2_Original ==
    (Validated /\ HasCycle(items))
    => (err = "circular" /\ ~sortCalled /\ NoItemStarted)

\* C2 amended: an item list with a depends_on cycle fails validation with the
\* missing-dependency error when some depends_on names no item, and with the
\* circular-dependency error when every depends_on resolves and names are
\* unique; in both cases executeChain neither sorts nor starts an item
C2_CycleRejected ==
    (Validated /\ HasCycle(items))
    => /\ ~AllResolve(items)
          => (err = "missing" /\ ~sortCalled /\ NoItemStarted)
       /\ (AllResolve(items) /\ UniqueNames(items))
          => (err = "circular" /\ ~sortCalled /\ NoItemStarted)

\* a three-item cycle without self-reference was rejected as circular
C2_Witness ==
    /\ pc = "exited"
    /\ Len(items) = 3
    /\ UniqueNames(items)
    /\ AllResolve(items)
    /\ HasCycle(items)
    /\ \A i \in DOMAIN items :
          Truthy(items[i].depends_on) /\ items[i].depends_on # items[i].name
    /\ err = "circular"

\* C3: an item list in which some depends_on names no item makes
\* validateDependencies fail with the missing-dependency error, and no item
\* is executed
C3_MissingRejected ==
    (Validated /\ ~AllResolve(items))
    => (err = "missing" /\ ~sortCalled /\ NoItemStarted)

\* a run over a list with an unresolved depends_on has ended
C3_Witness ==
    /\ pc = "exited"
    /\ Len(items) >= 2
    /\ ~AllResolve(items)
    /\ err = "missing"
    /\ exit = "error"

(***************************************************************************)
(* Properties of a chain run with commands (Spec)                          *)
(***************************************************************************)
\* executePackageItem / executeAppItem has returned or thrown for the item
ItemLeft == pc \in {"returned", "threw"}

\* an item failed (as opposed to validation or sorting)
ItemFailed == err \in {"manifest", "placeholder", "command", "artifact"}

\* C4 as claimed: when executePackageItem or executeAppItem returns or
\* throws after the snapshot of an existing manifest was taken, the manifest
\* on disk is byte-identical to the snapshot
C4_ManifestRestored ==
    (ItemLeft /\ existsSync(snapshot)) => manifest[CurItem.dir] = snapshot

\* C5 as claimed: when a termination signal ends the run while an item's
\* commands are running, the item's manifest is back to its snapshot once the
\* process has exited
C5_RestoredOnSignal ==
    (exit = "signal" /\ existsSync(snapshot))
    => manifest[CurItem.dir] = snapshot

\* C6 as claimed: once an item has failed, no later item is begun (no
\* process of it, no change to its manifest) and every item completed before
\* it has the manifest it started with
C6_FailFast ==
    ItemFailed
    => /\ \A k \in DOMAIN procs : procs[k].item <= idx
       /\ \A p \in DOMAIN sorted :
             p # idx => manifest[sorted[p].dir] = manifest0[sorted[p].dir]

\* C7: a process of a later stage of an item exists only when every process
\* of each earlier stage of that item has exited with code 0; after a failed
\* stage no later stage of the item is ever spawned
C7_StagesInOrder ==
    \A k, j \in DOMAIN procs :
        (procs[j].item = procs[k].item /\ procs[j].stage < procs[k].stage)
        => (procs[j].st = "closed" /\ procs[j].code = 0)

\* the serial stage that follows a two-command parallel stage has been spawned
C7_Witness ==
    \E k \in DOMAIN procs :
        /\ procs[k].stage = 2
        /\ Cardinality({j \in DOMAIN procs :
               procs[j].item = procs[k].item /\ procs[j].stage = 1}) = 2

\* C8 as claimed: in a parallel stage, once the close or error event of a
\* sibling that exited non-zero or failed to spawn has been handled, every
\* sibling still running has been sent SIGTERM
C8_SiblingsTerminated ==
    (pc = "await" /\ CurItem.commands[stage].par)
    => \A f, k \in StageMembers(procs) :
          (/\ procs[f].st = "closed"
           /\ procs[f].code # 0
           /\ procs[k].st = "running")
          => procs[k].termed

\* C9: a parallel stage reports its result only after every sibling has
\* settled; the result is a failure iff some sibling exited non-zero or
\* failed to spawn, failedCount is the number of such siblings, and a failed
\* result fails the stage so that no later stage of the item is spawned
C9_ParallelResult ==
    parResult.group # 0
    => LET members == {k \in DOMAIN procs : procs[k].group = parResult.group}
           bad     == {k \in members : procs[k].code # 0}
       IN  /\ \A k \in members : procs[k].st = "closed"
           /\ parResult.success <=> bad = {}
           /\ ~parResult.success
              => /\ parResult.failedCount = Cardinality(bad)
                 /\ ItemFailed
                 /\ \A k \in members, j \in DOMAIN procs :
                       procs[j].item = procs[k].item
                       => procs[j].stage <= procs[k].stage

\* a parallel stage with one failed and one successful sibling has reported
C9_Witness ==
    /\ ~parResult.success
    /\ parResult.failedCount = 1
    /\ \E k \in DOMAIN procs :
          /\ procs[k].group = parResult.group
          /\ procs[k].st = "closed"
          /\ procs[k].code = 0

\* C10 as claimed: while a session is started, every child process that is
\* alive has a record with its pid in the session file
C10_AliveRecorded ==
    sessionStarted
    => \A k \in DOMAIN procs :
          procs[k].st = "running"
          => \E r \in DOMAIN session.processes :
                session.processes[r].pid = procs[k].pid

(***************************************************************************)
(* Properties of the session file and of the cleanup handlers (Spec)       *)
(***************************************************************************)
\* C11 as claimed: the session write made when a child closes changes only
\* that child's record, so the session holds one record per process spawned
\* so far, in spawn order
C11_OneRecordPerSpawn ==
    sessionStarted
    => /\ Len(session.processes) = Len(procs)
       /\ \A k \in DOMAIN procs :
             k \in DOMAIN session.processes
             => session.processes[k].pid = procs[k].pid

C13_ForcedAfterGrace ==
    exit = "signal"
    => \A k \in DOMAIN procs :
          (procs[k].termed /\ procs[k].st = "running") => procs[k].forced

\* C14: the step a signal handler takes runs cleanup() (every running child
\* of the registry and of a running parallel group gets SIGTERM), then
\* endSession() (endedAt stamped, session flags reset), then exits non-zero
C14_HandlerSequence ==
    [][(exit = "no" /\ exit' # "no" /\ pc = "await")
       => /\ \A k \in DOMAIN procs :
                (/\ procs[k].st = "running"
                 /\ \/ k \in childProcesses
                    \/ \E g \in DOMAIN parallelGroups :
                          /\ parallelGroups[g].status = "running"
                          /\ procs[k].pid \in Range(parallelGroups[g].pids))
                => procs'[k].termed
          /\ sessionStarted => session'.endedAt
          /\ ~sessionStarted'
          /\ exitCode(exit') # 0]_vars

\* a signal handler has run while a parallel stage had two running children
C14_Witness ==
    /\ exit = "signal"
    /\ session.endedAt
    /\ Cardinality({k \in DOMAIN procs : procs[k].termed}) = 2

(***************************************************************************)
(* The state store on its own: createSession, addProcess, readSession      *)
(***************************************************************************)
\* most addProcess calls after one createSession
MaxAdds == 3

\* last value of the clock
MaxClock == 3

\* the pids a session file may record
Pids == {1, 2}

\* a ProcessRecord as executeCommand first writes it
runningRecord(pid) == [pid |-> pid, status |-> "running", exitCode |-> NoCode]

InitStore ==
    /\ items = <<>>
    /\ manifest = <<>>
    /\ config = rawConfig(items)
    /\ InitCommon

\* createSession(x)
StoreCreate ==
    /\ pc \in {"start", "store"}
    /\ pc' = "store"
    /\ session' = createSession
    /\ added' = <<>>
    /\ UNCHANGED <<call, config, items, err, sortCalled, sorted, idx, stage, manifest,
                   manifest0, snapshot, tgz, outputs, procs, childProcesses,
                   parallelGroups, parResult, sessionStarted, exit, now,
                   watch>>

\* addProcess(x, r)
StoreAdd ==
    /\ pc = "store"
    /\ Len(added) < MaxAdds
    /\ \E pid \in Pids :
          /\ session' = addProcess(session, runningRecord(pid))
          /\ added' = Append(added, runningRecord(pid))
    /\ UNCHANGED <<call, config, items, pc, err, sortCalled, sorted, idx, stage, manifest,
                   manifest0, snapshot, tgz, outputs, procs, childProcesses,
                   parallelGroups, parResult, sessionStarted, exit, now,
                   watch>>

\* time passes between two calls
Tick ==
    /\ now < MaxClock
    /\ now' = now + 1
    /\ UNCHANGED <<call, config, items, pc, err, sortCalled, sorted, idx, stage, manifest,
                   manifest0, snapshot, tgz, outputs, procs, childProcesses,
                   parallelGroups, parResult, session, sessionStarted, exit,
                   added, watch>>

NextStore ==
    \/ StoreCreate
    \/ StoreAdd
    \/ Tick

\* any sequence of createSession and addProcess calls
SpecStore == InitStore /\ [][NextStore]_vars

\* C20: after createSession and n addProcess calls and no other write,
\* readSession returns the n records in call order, and lastUpdated never
\* decreases from one write to the next
C20_AddsInCallOrder ==
    /\ [](pc = "store"
          => /\ readSession(session).exists
             /\ Len(readSession(session).processes) = Len(added)
             /\ readSession(session).processes = added)
    /\ [][(session.exists /\ session'.exists)
          => session'.lastUpdated >= session.lastUpdated]_vars

\* three records were added at different times, the last differing from the
\* first
C20_Witness ==
    /\ pc = "store"
    /\ Len(session.processes) = 3
    /\ session.processes[1].pid # session.processes[3].pid
    /\ session.lastUpdated = 2
    /\ now = 3

(***************************************************************************)
(* The watch tool (qk pack-watch <config> --once ...) on a session file    *)
(* left by a chain run, and the processes the operating system has         *)
(***************************************************************************)
\* most records of a session file
MaxRecords == 2

\* a ProcessRecord as a session file holds it; a record whose spawn failed
\* has no pid (NoPid)
storedRecord(pid, status) ==
    [pid |-> pid, status |-> status,
     exitCode |-> IF status = "running" THEN NoCode ELSE 0]

StoredRecords ==
    {storedRecord(pid, status) :
        pid \in Pids \cup {NoPid}, status \in {"running", "stopped"}}

\* the session files a chain run may leave behind (none at all included)
SessionFiles ==
    {NoSession} \cup
    UNION {{[exists |-> TRUE, valid |-> TRUE, endedAt |-> e, processes |-> ps,
             parallelGroups |-> <<>>, lastUpdated |-> 0] :
               ps \in [1..n -> StoredRecords], e \in BOOLEAN} :
           n \in 0..MaxRecords}

\* what the operating system has under a pid: "running" a process of the
\* user, "foreign" a process the user may not signal, "closed" nothing
osProcess(pid, st) ==
    [item |-> 0, stage |-> 0, group |-> 0, cmd |-> <<>>, pid |-> pid, st |-> st,
     code |-> NoCode, termed |-> FALSE, timer |-> FALSE, forced |-> FALSE]

InitWatch ==
    /\ items = <<>>
    /\ manifest = <<>>
    /\ config = rawConfig(items)
    /\ InitIdle
    /\ session \in SessionFiles
    /\ \E f \in [Pids -> {"running", "foreign", "closed"}] :
          procs = [pid \in Pids |-> osProcess(pid, f[pid])]

\* kill(pid, 0): how the no-op signal probe ends
kill0(ps, pid) ==
    IF pid \notin DOMAIN ps THEN "EINVAL"
    ELSE IF ps[pid].st \in {"running", "exited"} THEN "ok"
    ELSE IF ps[pid].st = "foreign" THEN "EPERM"
    ELSE "ESRCH"

\* an isProcessAlive that is true only when the probe succeeds
isProcessAliveProbeOk(outcome) == outcome = "ok"

\* isProcessAlive: false for ESRCH, true for everything else
isProcessAlive(outcome) == outcome # "ESRCH"

\* the processesWithStatus of showSession: probe and actualStatus per record
processesWithStatus(s, ps) ==
    [i \in DOMAIN s.processes |->
        [probe  |-> kill0(ps, s.processes[i].pid),
         actual |-> isProcessAlive(kill0(ps, s.processes[i].pid))]]

\* session.processes.filter(p => p.status === 'running'), as positions
runningProcesses(s) ==
    {i \in DOMAIN s.processes : s.processes[i].status = "running"}

\* terminateProcess of killer.mjs. Its `const process = session.processes
\* .find(...)` hides the global process object inside the function, so
\* process.kill(pid, 'SIGTERM') is a call of the record's undefined `kill`:
\* a TypeError, caught and rethrown as "Failed to terminate process". The
\* polling loop, the SIGKILL and the status update after it are never reached.
watchTerminateProcess(s, ps, pid) ==
    IF ~readSession(s).exists
    THEN [result |-> "nosession", signals |-> <<>>]
    ELSE IF \A i \in DOMAIN s.processes : s.processes[i].pid # pid
    THEN [result |-> "notfound", signals |-> <<>>]
    ELSE IF ~isProcessAlive(kill0(ps, pid))
    THEN [result |-> "already", signals |-> <<>>]
    ELSE [result |-> "failed", signals |-> <<>>]

\* the for-loop of terminateProcesses over the records at positions `todo`
\* (ascending): the first call that throws ends the loop
RECURSIVE terminateLoop(_, _, _, _)
terminateLoop(s, ps, todo, attempted) ==
    IF todo = {} THEN [attempted |-> attempted, result |-> "ok"]
    ELSE LET i == CHOOSE j \in todo : \A k \in todo : j <= k
             r == watchTerminateProcess(s, ps, s.processes[i].pid)
         IN  IF r.result \in {"failed", "notfound", "nosession"}
             THEN [attempted |-> Append(attempted, s.processes[i].pid),
                   result |-> "failed"]
             ELSE terminateLoop(s, ps, todo \ {i},
                                Append(attempted, s.processes[i].pid))

\* terminateProcesses of killer.mjs
terminateProcesses(s, ps) ==
    IF runningProcesses(s) = {}
    THEN [attempted |-> <<>>, result |-> "none"]
    ELSE terminateLoop(s, ps, runningProcesses(s), <<>>)

\* an askConfirmation that takes every answer for a yes
askConfirmationAlways(answer) == TRUE

\* askConfirmation: answer.toLowerCase() === 'y'
askConfirmation(answer) == answer \in {"y", "Y"}

\* deleteSession: the file is unlinked
deleteSession(s) == NoSession

\* a deleteSession that reports success whatever it found
deleteSessionReturnsTrue(s) == TRUE

\* the value deleteSession returns: whether the file existed
deleteSessionReturns(s) == s.exists

\* no invocation of the watch tool is waiting for the user's answer
WatchIdle == watch.phase = "done"

\* the recorded pids that are alive in the operating system
AlivePids ==
    {session.processes[i].pid : i \in
        {j \in DOMAIN session.processes :
            /\ session.processes[j].pid \in DOMAIN procs
            /\ procs[session.processes[j].pid].st \in {"running", "foreign"}}}

\* qk pack-watch <config> --once: showSession displays the records
WatchShow ==
    /\ WatchIdle
    /\ watch' = [op |-> "show", phase |-> "done",
                 found |-> readSession(session).exists,
                 statuses |-> processesWithStatus(readSession(session), procs)]
    /\ UNCHANGED <<call, config, items, pc, err, sortCalled, sorted, idx, stage, manifest,
                   manifest0, snapshot, tgz, outputs, procs, childProcesses,
                   parallelGroups, parResult, session, sessionStarted, exit,
                   now, added>>

\* qk pack-watch <config> --once --kill <pid>
WatchKill(pid) ==
    /\ WatchIdle
    /\ readSession(session).exists
    /\ LET r == watchTerminateProcess(session, procs, pid)
       IN  watch' = [op |-> "kill", phase |-> "done", pid |-> pid,
                     recorded |-> r.result # "notfound",
                     alive |-> pid \in AlivePids,
                     result |-> r.result, signals |-> r.signals]
    /\ UNCHANGED <<call, config, items, pc, err, sortCalled, sorted, idx, stage, manifest,
                   manifest0, snapshot, tgz, outputs, procs, childProcesses,
                   parallelGroups, parResult, session, sessionStarted, exit,
                   now, added>>

\* qk pack-watch <config> --once --kill
WatchKillAll ==
    /\ WatchIdle
    /\ readSession(session).exists
    /\ LET r == terminateProcesses(session, procs)
       IN  watch' = [op |-> "killall", phase |-> "done",
                     alive |-> AlivePids,
                     attempted |-> Range(r.attempted), result |-> r.result]
    /\ UNCHANGED <<call, config, items, pc, err, sortCalled, sorted, idx, stage, manifest,
                   manifest0, snapshot, tgz, outputs, procs, childProcesses,
                   parallelGroups, parResult, session, sessionStarted, exit,
                   now, added>>

\* cleanSession / forceCleanSession up to the question put to the user
WatchCleanAsk(force) ==
    /\ WatchIdle
    /\ readSession(session).exists
    /\ watch' = [op |-> IF force THEN "forceClean" ELSE "clean",
                 phase |-> IF ~force /\ runningProcesses(session) # {}
                           THEN "done" ELSE "asking",
                 alive |-> AlivePids, answer |-> "",
                 confirm |-> FALSE, deleted |-> FALSE]
    /\ UNCHANGED <<call, config, items, pc, err, sortCalled, sorted, idx, stage, manifest,
                   manifest0, snapshot, tgz, outputs, procs, childProcesses,
                   parallelGroups, parResult, session, sessionStarted, exit,
                   now, added>>

\* the user's answer, then deleteSession when it is a yes
WatchCleanAnswer(answer) ==
    /\ watch.op \in {"clean", "forceClean"}
    /\ watch.phase = "asking"
    /\ watch' = [watch EXCEPT !.phase = "done",
                              !.answer = answer,
                              !.confirm = askConfirmation(answer),
                              !.deleted = askConfirmation(answer)
                                          /\ session.exists]
    /\ session' = IF askConfirmation(answer)
                  THEN deleteSession(session) ELSE session
    /\ UNCHANGED <<call, config, items, pc, err, sortCalled, sorted, idx, stage, manifest,
                   manifest0, snapshot, tgz, outputs, procs, childProcesses,
                   parallelGroups, parResult, sessionStarted, exit, now,
                   added>>

\* a recorded process ends by itself
OsExit(pid) ==
    /\ procs[pid].st \in {"running", "foreign"}
    /\ procs' = [procs EXCEPT ![pid].st = "closed"]
    /\ UNCHANGED <<call, config, items, pc, err, sortCalled, sorted, idx, stage, manifest,
                   manifest0, snapshot, tgz, outputs, childProcesses,
                   parallelGroups, parResult, session, sessionStarted, exit,
                   now, added, watch>>

\* the operating system gives the pid of an ended process to a new one
OsReuse(pid, st) ==
    /\ procs[pid].st = "closed"
    /\ procs' = [procs EXCEPT ![pid].st = st]
    /\ UNCHANGED <<call, config, items, pc, err, sortCalled, sorted, idx, stage, manifest,
                   manifest0, snapshot, tgz, outputs, childProcesses,
                   parallelGroups, parResult, session, sessionStarted, exit,
                   now, added, watch>>

Answers == {"y", "Y", "yes", "n", ""}

Kill == \E pid \in Pids : WatchKill(pid)

CleanAsk == \E force \in BOOLEAN : WatchCleanAsk(force)

CleanAnswer == \E answer \in Answers : WatchCleanAnswer(answer)

Exit == \E pid \in Pids : OsExit(pid)

Reuse == \E pid \in Pids, st \in {"running", "foreign"} : OsReuse(pid, st)

NextWatch ==
    \/ WatchShow
    \/ Kill
    \/ WatchKillAll
    \/ CleanAsk
    \/ CleanAnswer
    \/ Exit
    \/ Reuse

\* invocations of the watch tool on a session file a chain run left behind
SpecWatch == InitWatch /\ [][NextWatch]_vars

----------------------------------------------------------------------------
\* Claims about the watch tool

\* C15: cleanSession (not forced) never deletes the session file while a
\* process recorded in the session is alive in the operating system; only
\* forceCleanSession may delete it then.
C15_CleanRefusesWhileAlive ==
    (watch.op = "clean" /\ watch.deleted) => watch.alive = {}

\* C16: a session file is deleted only by cleanSession or forceCleanSession,
\* and only after the confirmation was answered with a yes; displaying and
\* terminating never delete it.
C16_DeletedOnlyAfterYes ==
    [][(session.exists /\ ~session'.exists) =>
          /\ watch.op \in {"clean", "forceClean"}
          /\ watch.phase = "asking"
          /\ watch'.answer \in {"y", "Y"}]_vars

C16_Witness ==
    /\ watch.op \in {"clean", "forceClean"}
    /\ watch.phase = "done"
    /\ watch.deleted
    /\ ~session.exists

\* C17: terminateProcess of the watch tool, for a pid recorded in the session
\* and alive, sends the graceful signal to that pid first.
C17_GracefulSignalFirst ==
    (watch.op = "kill" /\ watch.recorded /\ watch.alive) =>
        /\ watch.signals # <<>>
        /\ watch.signals[1] = "SIGTERM"

\* C18: terminateProcesses attempts the termination of every recorded pid
\* that is alive in the operating system, whatever its stored status.
C18_EveryAlivePidAttempted ==
    watch.op = "killall" => watch.alive \subseteq watch.attempted

\* C19: isProcessAlive is false exactly when the probe fails with
\* no-such-process; it is true when the probe succeeds and when it fails
\* with permission-denied.
C19_AliveUnlessNoSuchProcess ==
    watch.op = "show" =>
        \A i \in DOMAIN watch.statuses :
            /\ watch.statuses[i].actual = (watch.statuses[i].probe # "ESRCH")
            /\ watch.statuses[i].probe \in {"ok", "EPERM"}
                   => watch.statuses[i].actual

C19_Witness ==
    /\ watch.op = "show"
    /\ \E i, j \in DOMAIN watch.statuses :
          /\ watch.statuses[i].probe = "EPERM"
          /\ watch.statuses[i].actual
          /\ watch.statuses[j].probe = "ESRCH"
          /\ ~watch.statuses[j].actual

----------------------------------------------------------------------------
\* Claims about the chain run, continued

\* the position in `sorted` of the package item CurItem depends on, once it
\* has completed (0 when there is none)
DependencyPos ==
    IF /\ idx \in DOMAIN sorted
       /\ Truthy(CurItem.depends_on)
       /\ \E j \in 1..(idx - 1) : /\ sorted[j].name = CurItem.depends_on
                                  /\ sorted[j].type = "package"
    THEN CHOOSE j \in 1..(idx - 1) : sorted[j].name = CurItem.depends_on
    ELSE 0

ChainCompleted ==
    /\ config \notin BadConfigs
    /\ validateDependencies(items).kind = "ok"
    /\ sortCalled
    /\ Len(sorted) = Len(items)
    /\ idx = Len(sorted)
    /\ \A k \in DOMAIN procs : procs[k].st = "closed" /\ procs[k].code = 0
    /\ \A i \in DOMAIN sorted :
          sorted[i].type = "package" => outputs[sorted[i].name] # NoOutput

\* C22: the chain-build command ends with exit code 1 whenever loading the
\* configuration, validating the dependencies, sorting or an item's
\* execution failed, and with exit code 0 only when every item completed.
C22_ExitCode ==
    pc = "exited" =>
        /\ (err # "none" \/ config \in BadConfigs) => exitCode(exit) = 1
        /\ exitCode(exit) = 0 => ChainCompleted

C22_Witness ==
    /\ pc = "exited"
    /\ config \in BadConfigs
    /\ err = "config"
    /\ exitCode(exit) = 1

----------------------------------------------------------------------------
(***************************************************************************)
(* executeCommands on commands with any tokens                             *)
(***************************************************************************)
\* the most {{name}} tokens a command holds
MaxTokens == 2

\* the names a token may hold: two items of the chain and a name no item has
TokenNames == {"a", "b", "constructor"}

\* a command: a program (pnpm add, or another one) and up to MaxTokens tokens
commandWith(lit, toks) == <<Lit(lit)>> \o [j \in DOMAIN toks |-> Tok(toks[j])]

\* the chain of the placeholder specification: items a and b came first,
\* each a package (its output is recorded) or an app (it records none);
\* item c, whose only stage is `st`, is about to run its commands
PlaceholderChain(ta, tb, st) ==
    <<[name |-> "a", type |-> ta, depends_on |-> NoDep, commands |-> <<>>,
       dir |-> 1],
      [name |-> "b", type |-> tb, depends_on |-> NoDep, commands |-> <<>>,
       dir |-> 2],
      [name |-> "c", type |-> "app", depends_on |-> NoDep,
       commands |-> <<st>>, dir |-> 3]>>

\* dependencyOutputs after the items before position i returned
outputsBefore(its, i) ==
    [n \in Names \cup {Missing} |->
        IF \E j \in 1..(i - 1) : its[j].name = n /\ its[j].type = "package"
        THEN LET j == CHOOSE j \in 1..(i - 1) : its[j].name = n
             IN  [tarballPath |-> its[j].dir, packageName |-> PackageNames[its[j].dir]]
        ELSE NoOutput]

InitPlaceholders ==
    /\ \E ta, tb \in {"package", "app"} :
       \E l1, l2 \in {"pnpm add ", "echo "} :
       \E n1, n2 \in 0..MaxTokens :
       \E t1 \in [1..n1 -> TokenNames], t2 \in [1..n2 -> TokenNames] :
       \E par \in BOOLEAN :
          items = PlaceholderChain(ta, tb,
                      IF par
                      THEN Parallel(<<commandWith(l1, t1), commandWith(l2, t2)>>)
                      ELSE Serial(commandWith(l1, t1)))
    /\ config = rawConfig(<<>>)
    /\ call = NoCall
    /\ sorted = items
    /\ sortCalled = TRUE
    /\ pc = "stage"
    /\ idx = 3
    /\ stage = 1
    /\ err = "none"
    /\ manifest = [d \in DOMAIN items |-> ManifestRaw]
    /\ manifest0 = manifest
    /\ snapshot = ManifestRaw
    /\ tgz = [d \in DOMAIN items |-> items[d].type = "package"]
    /\ outputs = outputsBefore(items, 3)
    /\ procs = <<>>
    /\ childProcesses = {}
    /\ parallelGroups = <<>>
    /\ parResult = [success |-> TRUE, failedCount |-> 0, group |-> 0]
    /\ now = 0
    /\ sessionStarted = TRUE
    /\ session = createSession
    /\ exit = "no"
    /\ added = <<>>
    /\ watch = NoWatch

NextPlaceholders == RunStage

\* the first stage of an item whose commands hold any tokens
SpecPlaceholders == InitPlaceholders /\ [][NextPlaceholders]_vars

\* outputs has an own entry for every token of every command of the stage
AllTokensRecorded ==
    \A j \in DOMAIN CurItem.commands[1].cmds :
        \A i \in tokens(CurItem.commands[1].cmds[j]) :
            LET name == CurItem.commands[1].cmds[j][i].v
            IN  name \in DOMAIN outputs /\ outputs[name] # NoOutput

\* part i of command c as the claim wants it after the replacement
ExpectedPart(c, i) ==
    IF c[i].k # "tok" THEN c[i]
    ELSE IF \E j \in DOMAIN c : c[j] = Lit("pnpm add ")
    THEN [k |-> "pkg@file", v |-> outputs[c[i].v].packageName,
          p |-> outputs[c[i].v].tarballPath]
    ELSE [k |-> "path", v |-> "", p |-> outputs[c[i].v].tarballPath]

\* C23: every token is replaced by the artifact path recorded for it (by
\* packageName@file:path in a pnpm add command); when outputs has no entry
\* for a token the stage fails and none of its processes is spawned.
C23_PlaceholdersResolved ==
    pc # "stage" =>
        IF AllTokensRecorded
        THEN /\ pc = "await"
             /\ \A j \in DOMAIN procs :
                   LET c == CurItem.commands[1].cmds[j]
                   IN  procs[j].cmd = [i \in DOMAIN c |-> ExpectedPart(c, i)]
        ELSE /\ pc = "threw"
             /\ err = "placeholder"
             /\ procs = <<>>

----------------------------------------------------------------------------
(***************************************************************************)
(* loadConfig on any configuration document                                *)
(***************************************************************************)
\* the most items a configuration document holds
MaxConfigItems == 2

\* the elements a parallel list may hold
SubEntries == {Str(BuildCmd), Str(""), Str("  "), Num}

\* the entries a commands list may hold
CmdEntries ==
    SubEntries \cup {List(<<>>)} \cup {List(<<e>>) : e \in SubEntries}
        \cup {List(<<Str(BuildCmd), e>>) : e \in SubEntries}

\* the values the commands field may have
CommandsValues ==
    {Undef, Str(""), Str(BuildCmd), Num, List(<<>>)}
        \cup {List(<<e>>) : e \in CmdEntries}
        \cup {List(<<Str(BuildCmd), e>>) : e \in CmdEntries}

\* any item object
AnyItems ==
    [name : {"a", "", Undefined}, type : {"package", "app", "lib", Undefined},
     dir : {"/d", Undefined}, commands : CommandsValues,
     auto_pack : {Undefined, "true", "false"}]

\* two items without a defect
SoundItems ==
    {[name |-> "p", type |-> "package", dir |-> "/d",
      commands |-> List(<<Str(BuildCmd)>>), auto_pack |-> Undefined],
     [name |-> "q", type |-> "app", dir |-> "/d",
      commands |-> List(<<List(<<Str(BuildCmd), Str(BuildCmd)>>)>>),
      auto_pack |-> Undefined]}

\* a document that is not a list, or a list of up to MaxConfigItems items:
\* any item at one position, sound items at the others
InitConfig ==
    /\ \/ config = NotAList
       \/ config = ConfigList(<<>>)
       \/ \E n \in 1..MaxConfigItems : \E k \in 1..n :
          \E any \in AnyItems : \E f \in [1..n -> SoundItems] :
              config = ConfigList([i \in 1..n |-> IF i = k THEN any ELSE f[i]])
    /\ items = <<>>
    /\ manifest = <<>>
    /\ InitCommon

\* const items = await loadConfig(configName), or the throw into run's catch
LoadConfig ==
    /\ pc = "start"
    /\ LET r == loadConfig(config)
       IN  /\ items' = r.items
           /\ err' = r.err
           /\ pc' = IF r.ok THEN "loaded" ELSE "catch"
    /\ UNCHANGED <<call, config, sortCalled, sorted, idx, stage, manifest, manifest0,
                   snapshot, tgz, outputs, procs, childProcesses,
                   parallelGroups, parResult, session, sessionStarted, exit,
                   now, added, watch>>

NextConfig == LoadConfig

SpecConfig == InitConfig /\ [][NextConfig]_vars

\* a non-empty string
NonEmptyString(e) == e.t = "string" /\ e.v # ""

\* a string with a character that is not white space
NonBlankString(e) == e.t = "string" /\ e.v \notin {"", "  "}

\* the defects of a configuration as the claim lists them
StatedDefect(cfg) ==
    \/ ~cfg.isArray
    \/ \E i \in DOMAIN cfg.list :
          LET item == cfg.list[i]
          IN  \/ item.name = Undefined
              \/ item.type = Undefined
              \/ item.dir = Undefined
              \/ item.commands.t = "undefined"
              \/ item.type \notin {"package", "app"}
              \/ /\ item.commands.t = "list"
                 /\ \E j \in DOMAIN item.commands.l :
                       LET e == item.commands.l[j]
                       IN  ~ \/ NonEmptyString(e)
                             \/ /\ e.t = "list"
                                /\ e.l # <<>>
                                /\ \A m \in DOMAIN e.l : NonEmptyString(e.l[m])

\* the defects with empty values, a commands value that is not a list and
\* blank strings counted in
AmendedDefect(cfg) ==
    \/ ~cfg.isArray
    \/ \E i \in DOMAIN cfg.list :
          LET item == cfg.list[i]
          IN  \/ item.name \in {Undefined, ""}
              \/ item.type \in {Undefined, ""}
              \/ item.dir \in {Undefined, ""}
              \/ item.commands.t # "list"
              \/ item.type \notin {"package", "app"}
              \/ \E j \in DOMAIN item.commands.l :
                    LET e == item.commands.l[j]
                    IN  ~ \/ NonBlankString(e)
                          \/ /\ e.t = "list"
                             /\ e.l # <<>>
                             /\ \A m \in DOMAIN e.l : NonBlankString(e.l[m])

\* C24 as stated: loadConfig fails, returning no items, exactly for the
\* configurations whose top-level value is not a list, that have an item
\* lacking name, type, dir or commands, an item of another type than package
\* or app, or a commands entry that is neither a non-empty string nor a
\* non-empty list of non-empty strings.
C24_Original ==
    pc # "start" =>
        /\ (pc = "catch") = StatedDefect(config)
        /\ pc = "catch" => items = <<>>

\* C24 amended: loadConfig fails, returning no items, exactly for the
\* configurations whose top-level value is not a list, that have an item
\* lacking name, type, dir or commands or holding an empty value for one of
\* them, an item whose commands is not a list, an item of another type than
\* package or app, or a commands entry that is neither a string with a
\* non-blank character nor a non-empty list of such strings.
C24_LoadConfigRejects ==
    pc # "start" =>
        /\ (pc = "catch") = AmendedDefect(config)
        /\ pc = "catch" => items = <<>>
        /\ pc = "loaded" => items = config.list

C24_Witness ==
    /\ pc = "catch"
    /\ ~StatedDefect(config)
    /\ \E i \in DOMAIN config.list :
          /\ config.list[i].commands.t = "list"
          /\ \E j \in DOMAIN config.list[i].commands.l :
                LET e == config.list[i].commands.l[j]
                IN  e.t = "list" /\ \E m \in DOMAIN e.l : e.l[m] = Str("  ")

\* C25: every package item a successful loadConfig returns has auto_pack
\* set: true when the configuration gave none, else the value it gave.
C25_AutoPackDefaulted ==
    pc = "loaded" =>
        \A i \in DOMAIN items :
            items[i].type = "package" =>
                items[i].auto_pack =
                    IF config.list[i].auto_pack = Undefined THEN "true"
                    ELSE config.list[i].auto_pack

----------------------------------------------------------------------------
(***************************************************************************)
(* findTgzFile                                                             *)
(***************************************************************************)
\* the most files the directory holds
MaxFiles == 2

\* the modification times of the files
Mtimes == {1, 2}

\* a file of the directory, by what findTgzFile asks of its name: does it
\* end in .tgz, is it <prefix>-<version>.tgz, does it contain the version,
\* does it start with <prefix>-, does it start with <config name>-
File(tgzExt, exact, hasVersion, prefix, cfg, mtime) ==
    [tgz |-> tgzExt, exact |-> exact, version |-> hasVersion,
     prefix |-> prefix, cfg |-> cfg, mtime |-> mtime]

\* the exact name is an artifact name with the prefix and the version; a
\* file that is no artifact stands with every other mark set
FileKinds ==
    {File(TRUE, FALSE, v, p, c, m) : v \in BOOLEAN, p \in BOOLEAN,
                                     c \in BOOLEAN, m \in Mtimes}
    \cup {File(TRUE, TRUE, TRUE, TRUE, c, m) : c \in BOOLEAN, m \in Mtimes}
    \cup {File(FALSE, FALSE, TRUE, TRUE, TRUE, m) : m \in Mtimes}

\* file names are unique: at most one file has the exact name
OneExact(files) ==
    \A i, j \in DOMAIN files : (files[i].exact /\ files[j].exact) => i = j

\* what getActualPackageName finds: no package.json, one that does not
\* parse, one without a name, one with a name
ManifestStates == {"absent", "invalid", "noname", "named"}

Pending == [ok |-> FALSE, err |-> "pending", file |-> 0]

InitArtifact ==
    /\ \/ call = [fn |-> "findTgzFile", done |-> FALSE, ret |-> Pending,
                  dirExists |-> FALSE, manifest |-> "absent", files |-> <<>>]
       \/ \E n \in 0..MaxFiles : \E f \in [1..n -> FileKinds] :
          \E ms \in ManifestStates :
              /\ OneExact(f)
              /\ call = [fn |-> "findTgzFile", done |-> FALSE, ret |-> Pending,
                         dirExists |-> TRUE, manifest |-> ms, files |-> f]
    /\ items = <<>>
    /\ manifest = <<>>
    /\ config = rawConfig(items)
    /\ pc = "start"
    /\ err = "none"
    /\ sortCalled = FALSE
    /\ sorted = <<>>
    /\ idx = 0
    /\ stage = 0
    /\ manifest0 = manifest
    /\ snapshot = ManifestAbsent
    /\ tgz = <<>>
    /\ outputs = [n \in Names \cup {Missing} |-> NoOutput]
    /\ childProcesses = {}
    /\ parallelGroups = <<>>
    /\ parResult = [success |-> TRUE, failedCount |-> 0, group |-> 0]
    /\ sessionStarted = FALSE
    /\ exit = "no"
    /\ now = 0
    /\ added = <<>>
    /\ watch = NoWatch
    /\ procs = <<>>
    /\ session = NoSession

\* files.filter(...), as the positions kept
filterFiles(files, keep(_)) == {i \in DOMAIN files : keep(files[i])}

\* a getNewestFile that returns the first file of the list
getFirstFile(files, sel) == CHOOSE i \in sel : \A j \in sel : i <= j

\* getNewestFile: the stable sort by descending mtime puts first the
\* earliest listed file among those with the greatest mtime
getNewestFile(files, sel) ==
    CHOOSE i \in sel :
        /\ \A j \in sel : files[j].mtime <= files[i].mtime
        /\ \A j \in sel : files[j].mtime = files[i].mtime => i <= j

isTgz(f) == f.tgz
isExact(f) == f.exact
isVersionMatch(f) == f.tgz /\ f.version
isVersionPrefixMatch(f) == f.tgz /\ f.version /\ f.prefix
isPrefixMatch(f) == f.tgz /\ f.prefix
isConfigMatch(f) == f.tgz /\ f.cfg

found(i) == [ok |-> TRUE, err |-> "none", file |-> i]
thrown(e) == [ok |-> FALSE, err |-> e, file |-> 0]

\* findTgzFile(dir, packageName, version)
findTgzFile(c) ==
    LET files == c.files
    IN  IF ~c.dirExists THEN thrown("Directory not found")
        ELSE IF c.manifest = "absent" THEN thrown("package.json not found")
        ELSE IF c.manifest = "invalid" THEN thrown("Invalid package.json")
        ELSE IF c.manifest = "noname" THEN thrown("package.json is missing name")
        ELSE IF filterFiles(files, isExact) # {}
        THEN found(CHOOSE i \in DOMAIN files : files[i].exact)
        ELSE IF filterFiles(files, isTgz) = {} THEN thrown("No .tgz files found")
        ELSE IF filterFiles(files, isVersionMatch) # {}
        THEN IF filterFiles(files, isVersionPrefixMatch) # {}
             THEN found(getNewestFile(files, filterFiles(files, isVersionPrefixMatch)))
             ELSE found(getNewestFile(files, filterFiles(files, isVersionMatch)))
        ELSE IF filterFiles(files, isPrefixMatch) # {}
        THEN found(getNewestFile(files, filterFiles(files, isPrefixMatch)))
        ELSE IF filterFiles(files, isConfigMatch) # {}
        THEN found(getNewestFile(files, filterFiles(files, isConfigMatch)))
        ELSE found(getNewestFile(files, filterFiles(files, isTgz)))

\* const tgzPath = findTgzFile(dir, item.name, alphaVersion)
FindTgzFile ==
    /\ call.fn = "findTgzFile"
    /\ ~call.done
    /\ call' = [call EXCEPT !.done = TRUE, !.ret = findTgzFile(call)]
    /\ UNCHANGED <<config, items, pc, err, sortCalled, sorted, idx, stage,
                   manifest, manifest0, snapshot, tgz, outputs, procs,
                   childProcesses, parallelGroups, parResult, session,
                   sessionStarted, exit, now, added, watch>>

NextArtifact == FindTgzFile

SpecArtifact == InitArtifact /\ [][NextArtifact]_vars

\* file i is a newest one among the artifact files with property `rule`
NewestOf(i, rule(_)) ==
    /\ rule(call.files[i])
    /\ \A j \in DOMAIN call.files :
          rule(call.files[j]) => call.files[j].mtime <= call.files[i].mtime

SomeFile(rule(_)) == \E i \in DOMAIN call.files : rule(call.files[i])

\* the file the ordered rules choose
ChosenByRules(i) ==
    IF SomeFile(isExact) THEN call.files[i].exact
    ELSE IF SomeFile(isVersionPrefixMatch) THEN NewestOf(i, isVersionPrefixMatch)
    ELSE IF SomeFile(isVersionMatch) THEN NewestOf(i, isVersionMatch)
    ELSE IF SomeFile(isPrefixMatch) THEN NewestOf(i, isPrefixMatch)
    ELSE IF SomeFile(isConfigMatch) THEN NewestOf(i, isConfigMatch)
    ELSE NewestOf(i, isTgz)

\* C26 as stated: findTgzFile returns the file the first applicable rule
\* chooses, and fails only when the directory does not exist or holds no
\* artifact file.
C26_Original ==
    (call.fn = "findTgzFile" /\ call.done) =>
        /\ ~call.ret.ok = (~call.dirExists \/ ~SomeFile(isTgz))
        /\ call.ret.ok => ChosenByRules(call.ret.file)

\* C26 amended: findTgzFile returns the file the first applicable rule
\* chooses, and fails only when the directory does not exist, its
\* package.json is missing, unparsable or without a name, or it holds no
\* artifact file.
C26_FirstApplicableRule ==
    (call.fn = "findTgzFile" /\ call.done) =>
        /\ ~call.ret.ok = (~call.dirExists \/ call.manifest # "named"
                           \/ ~SomeFile(isTgz))
        /\ call.ret.ok => ChosenByRules(call.ret.file)

C26_Witness ==
    /\ call.fn = "findTgzFile"
    /\ call.done
    /\ call.ret.ok
    /\ ~SomeFile(isExact)
    /\ Len(call.files) = 2
    /\ call.ret.file = 2
    /\ call.files[1].tgz
    /\ call.files[1].version = call.files[2].version
    /\ call.files[1].prefix = call.files[2].prefix
    /\ call.files[1].cfg = call.files[2].cfg
    /\ call.files[1].mtime < call.files[2].mtime

----------------------------------------------------------------------------
(***************************************************************************)
(* generateAlphaVersion                                                    *)
(***************************************************************************)
\* the most parts a version holds after its core
MaxSuffix == 3

\* the most times generateAlphaVersion is applied to its own output
MaxApply == 2

\* a version string is a sequence of parts: the core ("1.0.0"), the tag
\* "-alpha.", a run of digits, other text ("+build")
CorePart  == [k |-> "core", v |-> 0]
AlphaTag  == [k |-> "alpha", v |-> 0]
Digits(n) == [k |-> "digits", v |-> n]
OtherPart == [k |-> "other", v |-> 0]

SuffixParts == {AlphaTag, Digits(1), Digits(7), OtherPart}

\* generateTimestamp: the digits of the local time YYYYMMDDHHmmss
generateTimestamp(t) == Digits(t)

\* the position where /-alpha\.\d+$/ matches: an "-alpha." with nothing but
\* digits, and at least one, from there to the end (0 when there is none)
alphaMatch(v) ==
    IF \E i \in DOMAIN v : /\ v[i] = AlphaTag
                           /\ i < Len(v)
                           /\ \A j \in (i + 1)..Len(v) : v[j].k = "digits"
    THEN CHOOSE i \in DOMAIN v : /\ v[i] = AlphaTag
                                 /\ i < Len(v)
                                 /\ \A j \in (i + 1)..Len(v) : v[j].k = "digits"
    ELSE 0

\* a generateAlphaVersion that always appends
generateAlphaVersionAppend(baseVersion, t) ==
    baseVersion \o <<AlphaTag, generateTimestamp(t)>>

\* generateAlphaVersion(baseVersion) at time t
generateAlphaVersion(baseVersion, t) ==
    IF alphaMatch(baseVersion) # 0
    THEN SubSeq(baseVersion, 1, alphaMatch(baseVersion) - 1)
             \o <<AlphaTag, generateTimestamp(t)>>
    ELSE baseVersion \o <<AlphaTag, generateTimestamp(t)>>

InitVersion ==
    /\ \E n \in 0..MaxSuffix : \E f \in [1..n -> SuffixParts] :
          call = [fn |-> "generateAlphaVersion", n |-> 0,
                  prev |-> <<CorePart>> \o f, cur |-> <<CorePart>> \o f]
    /\ items = <<>>
    /\ manifest = <<>>
    /\ config = rawConfig(items)
    /\ pc = "start"
    /\ err = "none"
    /\ sortCalled = FALSE
    /\ sorted = <<>>
    /\ idx = 0
    /\ stage = 0
    /\ manifest0 = manifest
    /\ snapshot = ManifestAbsent
    /\ tgz = <<>>
    /\ outputs = [n \in Names \cup {Missing} |-> NoOutput]
    /\ childProcesses = {}
    /\ parallelGroups = <<>>
    /\ parResult = [success |-> TRUE, failedCount |-> 0, group |-> 0]
    /\ sessionStarted = FALSE
    /\ exit = "no"
    /\ now = 0
    /\ added = <<>>
    /\ watch = NoWatch
    /\ procs = <<>>
    /\ session = NoSession

\* const alphaVersion = generateAlphaVersion(version), on the original
\* version first and then on what it returned
GenerateAlphaVersion ==
    /\ call.fn = "generateAlphaVersion"
    /\ call.n < MaxApply
    /\ call' = [call EXCEPT !.n = @ + 1, !.prev = call.cur,
                            !.cur = generateAlphaVersion(call.cur, now)]
    /\ UNCHANGED <<config, items, pc, err, sortCalled, sorted, idx, stage,
                   manifest, manifest0, snapshot, tgz, outputs, procs,
                   childProcesses, parallelGroups, parResult, session,
                   sessionStarted, exit, now, added, watch>>

NextVersion ==
    \/ GenerateAlphaVersion
    \/ Tick

SpecVersion == InitVersion /\ [][NextVersion]_vars

\* v ends in -alpha.<digits>
EndsInAlphaDigits(v) ==
    \E i \in 1..(Len(v) - 1) :
        v[i].k = "alpha" /\ \A j \in (i + 1)..Len(v) : v[j].k = "digits"

\* v without its trailing digits
BeforeDigits(v) ==
    SubSeq(v, 1, CHOOSE i \in 0..Len(v) :
                     /\ \A j \in (i + 1)..Len(v) : v[j].k = "digits"
                     /\ i > 0 => v[i].k # "digits")

\* C27: generateAlphaVersion(base) is base with one trailing
\* -alpha.<timestamp>: when base ends in -alpha.<digits> only the digits are
\* replaced, otherwise the suffix is appended; applied to its own output it
\* keeps the part before -alpha. and does not stack a second suffix.
C27_OneAlphaSuffix ==
    (call.fn = "generateAlphaVersion" /\ call.n >= 1) =>
        /\ Len(call.cur) >= 2
        /\ call.cur[Len(call.cur) - 1] = AlphaTag
        /\ call.cur[Len(call.cur)].k = "digits"
        /\ IF EndsInAlphaDigits(call.prev)
           THEN BeforeDigits(call.cur) = BeforeDigits(call.prev)
           ELSE SubSeq(call.cur, 1, Len(call.cur) - 2) = call.prev
        /\ call.n >= 2 =>
              /\ SubSeq(call.cur, 1, Len(call.cur) - 2)
                     = SubSeq(call.prev, 1, Len(call.prev) - 2)
              /\ Len(call.cur) = Len(call.prev)

C27_Witness ==
    /\ call.fn = "generateAlphaVersion"
    /\ call.n = 2
    /\ call.cur # call.prev
    /\ Len(call.cur) = 3
    /\ call.cur[3] = Digits(now)

----------------------------------------------------------------------------
\* Claims about topologicalSort, continued

\* the position of the item named n in `items`
PosOfItem(n) ==
    CHOOSE i \in DOMAIN items :
        items[i].name = n /\ \A j \in DOMAIN items : items[j].name = n => i <= j

\* the in-degrees and the initial queue topologicalSort computes for `items`
SortInDegree == initialInDegree(buildDependencyGraph(items))

SortInitialQueue ==
    zeroDegree(buildDependencyGraph(items).keys, SortInDegree)

\* the number of other items whose depends_on names n
Dependents(n) ==
    Cardinality({i \in DOMAIN items :
                    items[i].depends_on = n /\ items[i].name # n})

\* the number of depends_on entries of item n that name an item of the list
\* (of the last item of that name, the one whose entry the graph keeps)
OwnDependencies(n) ==
    LET last == CHOOSE i \in DOMAIN items :
                   /\ items[i].name = n
                   /\ \A j \in DOMAIN items : items[j].name = n => j <= i
    IN  IF /\ Truthy(items[last].depends_on)
           /\ HasName(items, items[last].depends_on)
        THEN 1 ELSE 0

\* C28 as stated: the in-degree computed for a node is the number of other
\* items whose depends_on names it, and the initial queue holds the nodes
\* whose in-degree is 0.
C28_Original ==
    sortCalled =>
        /\ \A n \in DOMAIN SortInDegree : SortInDegree[n] = Dependents(n)
        /\ Range(SortInitialQueue) = {n \in DOMAIN SortInDegree : Dependents(n) = 0}

\* C28 amended: the in-degree computed for a node is the number of its own
\* depends_on entries that name an item of the list, and the initial queue
\* holds, in list order, the nodes whose in-degree is 0.
C28_InDegreeIsOwnDependencies ==
    sortCalled =>
        /\ \A n \in DOMAIN SortInDegree : SortInDegree[n] = OwnDependencies(n)
        /\ Range(SortInitialQueue) =
               {n \in DOMAIN SortInDegree : OwnDependencies(n) = 0}
        /\ \A i, j \in DOMAIN SortInitialQueue :
               i < j => PosOfItem(SortInitialQueue[i]) < PosOfItem(SortInitialQueue[j])
        /\ sorted # <<>> => sorted[1].name = SortInitialQueue[1]

C28_Witness ==
    /\ sortCalled
    /\ \E n \in DOMAIN SortInDegree : Dependents(n) = 2 /\ SortInDegree[n] = 0
    /\ \E n \in DOMAIN SortInDegree : Dependents(n) = 0 /\ SortInDegree[n] = 1

\* the position in `sorted` of item i of `items` (0 when it is not there)
SortedPos(i) ==
    IF \E p \in DOMAIN sorted : sorted[p] = items[i]
    THEN CHOOSE p \in DOMAIN sorted : sorted[p] = items[i]
    ELSE 0

\* C29: ties are broken by discovery order: two items without depends_on,
\* and two items with the same depends_on target, appear in the output in
\* their input relative order, whatever their names.
C29_TiesByDiscoveryOrder ==
    (sortCalled /\ err # "sort") =>
        \A i, j \in DOMAIN items :
            (i < j /\ items[i].depends_on = items[j].depends_on)
            => (SortedPos(i) # 0 /\ SortedPos(i) < SortedPos(j))

\* "c" and "b" share the target "a" and are listed in reverse name order
C29_Witness ==
    /\ sortCalled
    /\ Len(items) = 3
    /\ items[1].name = "c" /\ items[1].depends_on = "a"
    /\ items[2].name = "b" /\ items[2].depends_on = "a"
    /\ items[3].name = "a" /\ items[3].depends_on = NoDep
    /\ sorted = <<items[3], items[1], items[2]>>

\* C30: on every item list that loadConfig accepts and validateDependencies
\* passes, topologicalSort does not throw its emitted-count error.
C30_SortErrorUnreachable ==
    (sortCalled /\ loadConfig(config).ok /\ validateDependencies(items).kind = "ok")
    => (err # "sort" /\ Len(sorted) = Len(items))

----------------------------------------------------------------------------
\* Claims about the chain run, continued

\* the directories whose manifest is not the one the run started with
Dirty == {d \in DOMAIN manifest : manifest[d] # manifest0[d]}

\* C31: at every moment of a chain run at most one item's manifest differs
\* from its pre-run content, and a manifest changes only while its own item
\* is the one being executed.
C31_OneManifestAtATime ==
    /\ Cardinality(Dirty) <= 1
    /\ exit = "no" =>
           Dirty \subseteq (IF pc \in {"stage", "await", "settled", "finish"}
                            THEN {CurItem.dir} ELSE {})

\* handle k settles in this step (its close or error event is handled)
Settles(k) == procs[k].st \in {"exited", "spawnfail"} /\ procs'[k].st = "closed"

Unsettled == {k \in DOMAIN procs : procs[k].st # "closed"}

\* C37 as stated: childProcesses is at every moment exactly the set of
\* spawned children that have not yet emitted close or error.
C37_Original == childProcesses = Unsettled

\* C37 amended: childProcesses holds exactly the unsettled children that
\* terminateProcess has not signalled: a handle leaves the registry when its
\* close or error event is handled or when terminateProcess has sent SIGTERM
\* to its pid; the count is 0 once every spawned child has settled.
C37_RegistryTracksChildren ==
    /\ childProcesses = {k \in Unsettled : ~procs[k].timer}
    /\ Unsettled = {} => Cardinality(childProcesses) = 0

\* a running child of a parallel stage has left the registry after the
\* signal handler's cleanup, its sibling having settled before
C37_Witness ==
    /\ exit = "signal"
    /\ \E k \in DOMAIN procs :
          procs[k].st = "running" /\ procs[k].termed /\ k \notin childProcesses
    /\ \E k \in DOMAIN procs : procs[k].st = "closed"

(***************************************************************************)
(* The state store, one call of any operation on any session file          *)
(***************************************************************************)
\* a session file whose content is not valid JSON
Malformed ==
    [exists |-> TRUE, valid |-> FALSE, endedAt |-> FALSE, processes |-> <<>>,
     parallelGroups |-> <<>>, lastUpdated |-> 0]

\* the `partial` documents updateSession is called with
Partials ==
    {[processes |-> ps] : ps \in {<<>>} \cup {<<r>> : r \in StoredRecords}}
    \cup {[endedAt |-> TRUE],
          [endedAt |-> TRUE, processes |-> <<>>],
          [lastUpdated |-> 0]}

InitSession ==
    /\ items = <<>>
    /\ manifest = <<>>
    /\ config = rawConfig(items)
    /\ InitIdle
    /\ session \in SessionFiles \cup {Malformed}
    /\ \E f \in [Pids -> {"running", "closed"}] :
          procs = [pid \in Pids |-> osProcess(pid, f[pid])]

\* the call made, the file it found, its error and its return value
called(fn, arg, e, ret) ==
    [fn |-> fn, arg |-> arg, before |-> session, at |-> now, err |-> e,
     ret |-> ret]

\* updateSession(name, partial)
SessionUpdate(partial) ==
    /\ pc = "start"
    /\ pc' = "called"
    /\ session' = updateSession(session, partial)
    /\ call' = called("updateSession", partial, storeError(session), FALSE)
    /\ UNCHANGED <<config, items, err, sortCalled, sorted, idx, stage, manifest,
                   manifest0, snapshot, tgz, outputs, procs, childProcesses,
                   parallelGroups, parResult, sessionStarted, exit>>
    /\ UNCHANGED toolVars

\* addProcess(name, record)
SessionAdd(r) ==
    /\ pc = "start"
    /\ pc' = "called"
    /\ session' = addProcess(session, r)
    /\ call' = called("addProcess", r, storeError(session), FALSE)
    /\ UNCHANGED <<config, items, err, sortCalled, sorted, idx, stage, manifest,
                   manifest0, snapshot, tgz, outputs, procs, childProcesses,
                   parallelGroups, parResult, sessionStarted, exit>>
    /\ UNCHANGED toolVars

\* endSession(name)
SessionEnd ==
    /\ pc = "start"
    /\ pc' = "called"
    /\ session' = storeEndSession(session)
    /\ call' = called("endSession", 0, storeError(session), FALSE)
    /\ UNCHANGED <<config, items, err, sortCalled, sorted, idx, stage, manifest,
                   manifest0, snapshot, tgz, outputs, procs, childProcesses,
                   parallelGroups, parResult, sessionStarted, exit>>
    /\ UNCHANGED toolVars

\* deleteSession(name)
SessionDelete ==
    /\ pc = "start"
    /\ pc' = "called"
    /\ session' = deleteSession(session)
    /\ call' = called("deleteSession", 0, "none", deleteSessionReturns(session))
    /\ UNCHANGED <<config, items, err, sortCalled, sorted, idx, stage, manifest,
                   manifest0, snapshot, tgz, outputs, procs, childProcesses,
                   parallelGroups, parResult, sessionStarted, exit>>
    /\ UNCHANGED toolVars

\* ProcessManager.startSession(name): createSession(name)
SessionStart ==
    /\ pc = "start"
    /\ pc' = "called"
    /\ session' = createSession
    /\ sessionStarted' = TRUE
    /\ call' = called("createSession", 0, "none", FALSE)
    /\ UNCHANGED <<config, items, err, sortCalled, sorted, idx, stage, manifest,
                   manifest0, snapshot, tgz, outputs, procs, childProcesses,
                   parallelGroups, parResult, exit>>
    /\ UNCHANGED toolVars

Update == \E partial \in Partials : SessionUpdate(partial)

Add == \E r \in StoredRecords : SessionAdd(r)

NextSession ==
    \/ Update
    \/ Add
    \/ SessionEnd
    \/ SessionDelete
    \/ SessionStart
    \/ Tick

SpecSession == InitSession /\ [][NextSession]_vars

\* C33: updateSession(name, partial) on an existing session leaves every key
\* that partial does not hold unchanged, except lastUpdated, which is
\* stamped; every key of partial is stored as given, so a processes key
\* replaces the whole stored list.
C33_ShallowMerge ==
    (call.fn = "updateSession" /\ call.err = "none") =>
        /\ session.lastUpdated = call.at
        /\ DOMAIN session = DOMAIN call.before \cup DOMAIN call.arg
        /\ \A k \in DOMAIN call.before \ (DOMAIN call.arg \cup {"lastUpdated"}) :
               session[k] = call.before[k]
        /\ \A k \in DOMAIN call.arg \ {"lastUpdated"} : session[k] = call.arg[k]

\* a one-record partial was written over a file of two other records, after
\* the clock had advanced
C33_Witness ==
    /\ call.fn = "updateSession"
    /\ call.err = "none"
    /\ Len(call.before.processes) = 2
    /\ "processes" \in DOMAIN call.arg
    /\ Len(session.processes) = 1
    /\ session.processes[1] \notin Range(call.before.processes)
    /\ call.before.endedAt /\ session.endedAt
    /\ session.lastUpdated = 2

\* C34: without a session file updateSession, addProcess and endSession fail
\* with the session-not-found error and leave the store as it was (no file
\* is created); deleteSession returns true exactly when the file existed,
\* and readSession returns null after it.
C34_NotFoundAndDelete ==
    /\ (call.fn \in {"updateSession", "addProcess", "endSession"}
        /\ ~call.before.exists)
       => (call.err = "Session not found" /\ session = call.before)
    /\ call.fn = "deleteSession"
       => (call.ret = call.before.exists /\ readSessionOutcome(session) = "null")

\* deleteSession found no file and returned false
C34_Witness ==
    /\ call.fn = "deleteSession"
    /\ ~call.before.exists
    /\ call.ret = FALSE
    /\ ~session.exists

\* C38: createSession always writes a session with no process records and
\* no endedAt, also over an existing session file: starting a run discards
\* every record of the previous run, those of live processes included.
C38_CreateDiscardsRecords ==
    call.fn = "createSession" =>
        /\ readSessionOutcome(session) = "document"
        /\ session.processes = <<>>
        /\ ~session.endedAt
        /\ session.lastUpdated = call.at
        /\ sessionStarted

\* the earlier file recorded as running a pid that is still alive
C38_Witness ==
    /\ call.fn = "createSession"
    /\ session.processes = <<>>
    /\ \E i \in DOMAIN call.before.processes :
          /\ call.before.processes[i].status = "running"
          /\ call.before.processes[i].pid \in DOMAIN procs
          /\ isProcessAlive(kill0(procs, call.before.processes[i].pid))
          /\ procs[call.before.processes[i].pid].st = "running"

(***************************************************************************)
(* listSessions and readSession over a state directory                     *)
(***************************************************************************)
Ext == ".json"

\* the names readdirSync may return, in its order; a name is the sequence of
\* its dot-separated pieces
DirNames ==
    << <<"a", Ext>>, <<"a", Ext, ".b", Ext>>, <<"b", Ext>>, <<"b", ".txt">> >>

\* what a file of the directory may hold (NoSession: there is no such file)
DirContents ==
    {NoSession, Malformed,
     [exists |-> TRUE, valid |-> TRUE, endedAt |-> FALSE, processes |-> <<>>,
      parallelGroups |-> <<>>, lastUpdated |-> 0],
     [exists |-> TRUE, valid |-> TRUE, endedAt |-> TRUE, processes |-> <<>>,
      parallelGroups |-> <<>>, lastUpdated |-> 1]}

\* getSessionPath(configName): `${configName}.json`
getSessionPath(configName) == Append(configName, Ext)

\* the file at `path`
fileAt(dir, path) == IF path \in DOMAIN dir THEN dir[path] ELSE NoSession

\* file.endsWith('.json')
endsWithExt(file) == file[Len(file)] = Ext

\* file.replace('.json', ''): the first occurrence is removed
RECURSIVE replaceExt(_)
replaceExt(file) ==
    IF file = <<>> THEN <<>>
    ELSE IF Head(file) = Ext THEN Tail(file)
    ELSE <<Head(file)>> \o replaceExt(Tail(file))

\* the body of listSessions' loop from file i on
RECURSIVE listFrom(_, _, _)
listFrom(dir, files, i) ==
    IF i > Len(files) THEN <<>>
    ELSE LET configName == replaceExt(files[i])
             f == fileAt(dir, getSessionPath(configName))
         IN  (IF readSessionOutcome(f) = "document" THEN <<readSession(f)>>
                                                    ELSE <<>>)
             \o listFrom(dir, files, i + 1)

\* listSessions(): the sessions pushed, in directory order
listSessions(dir) ==
    listFrom(dir, SelectSeq(DirNames, LAMBDA n : fileAt(dir, n).exists /\ endsWithExt(n)), 1)

\* the configuration names readSession is called with
SessionNames == {<<"a">>, <<"b">>, <<"a", Ext, ".b">>}

InitList ==
    /\ \E d \in [Range(DirNames) -> DirContents] :
          call = [fn |-> "pending", dir |-> d, name |-> <<>>, err |-> "none",
                  ret |-> <<>>]
    /\ items = <<>>
    /\ manifest = <<>>
    /\ config = rawConfig(items)
    /\ pc = "start"
    /\ err = "none"
    /\ sortCalled = FALSE
    /\ sorted = <<>>
    /\ idx = 0
    /\ stage = 0
    /\ manifest0 = manifest
    /\ snapshot = ManifestAbsent
    /\ tgz = <<>>
    /\ outputs = [n \in Names \cup {Missing} |-> NoOutput]
    /\ childProcesses = {}
    /\ parallelGroups = <<>>
    /\ parResult = [success |-> TRUE, failedCount |-> 0, group |-> 0]
    /\ sessionStarted = FALSE
    /\ exit = "no"
    /\ now = 0
    /\ added = <<>>
    /\ watch = NoWatch
    /\ procs = <<>>
    /\ session = NoSession

\* listSessions()
ListSessions ==
    /\ call.fn = "pending"
    /\ call' = [call EXCEPT !.fn = "listSessions",
                            !.ret = listSessions(call.dir)]
    /\ UNCHANGED <<config, items, pc, err, sortCalled, sorted, idx, stage,
                   manifest, manifest0, snapshot, tgz, outputs, procs,
                   childProcesses, parallelGroups, parResult, session,
                   sessionStarted, exit, now, added, watch>>

\* readSession(name)
ReadSession(name) ==
    /\ call.fn = "pending"
    /\ LET f == fileAt(call.dir, getSessionPath(name))
       IN  call' = [call EXCEPT
                       !.fn = "readSession",
                       !.name = name,
                       !.err = IF readSessionOutcome(f) \in {"null", "document"}
                               THEN "none" ELSE readSessionOutcome(f),
                       !.ret = IF readSessionOutcome(f) = "document"
                               THEN <<readSession(f)>> ELSE <<>>]
    /\ UNCHANGED <<config, items, pc, err, sortCalled, sorted, idx, stage,
                   manifest, manifest0, snapshot, tgz, outputs, procs,
                   childProcesses, parallelGroups, parResult, session,
                   sessionStarted, exit, now, added, watch>>

Read == \E name \in SessionNames : ReadSession(name)

NextList ==
    \/ ListSessions
    \/ Read

SpecList == InitList /\ [][NextList]_vars

\* the well-formed session files of the directory, in directory order
WellFormedFiles(dir) ==
    SelectSeq(DirNames,
              LAMBDA n : endsWithExt(n) /\ readSessionOutcome(fileAt(dir, n)) = "document")

\* C35: readSession fails with an error on a session file that is not valid
\* JSON; listSessions does not fail on such a file and returns exactly the
\* sessions of the well-formed session files, skipping the rest.
C35_ListSkipsMalformed ==
    /\ (call.fn = "readSession"
        /\ readSessionOutcome(fileAt(call.dir, getSessionPath(call.name)))
               \notin {"null", "document"})
       => (call.err = "Invalid JSON in session file" /\ call.ret = <<>>)
    /\ call.fn = "listSessions"
       => /\ call.err = "none"
          /\ call.ret = [i \in DOMAIN WellFormedFiles(call.dir) |->
                            fileAt(call.dir, WellFormedFiles(call.dir)[i])]

(***************************************************************************)
(* The auto-refresh loop of the watch tool (watchSession)                  *)
(***************************************************************************)
\* most iterations of the loop that are followed
MaxRefresh == 2

\* a loop that ignores the flag its signal handler clears
watchLoopAlways(w) == TRUE

\* while (isRunning)
watchLoopTest(w) == w.isRunning

InitRefresh ==
    /\ items = <<>>
    /\ manifest = <<>>
    /\ config = rawConfig(items)
    /\ call = NoCall
    /\ pc = "start"
    /\ err = "none"
    /\ sortCalled = FALSE
    /\ sorted = <<>>
    /\ idx = 0
    /\ stage = 0
    /\ manifest0 = manifest
    /\ snapshot = ManifestAbsent
    /\ tgz = <<>>
    /\ outputs = [n \in Names \cup {Missing} |-> NoOutput]
    /\ childProcesses = {}
    /\ parallelGroups = <<>>
    /\ parResult = [success |-> TRUE, failedCount |-> 0, group |-> 0]
    /\ sessionStarted = FALSE
    /\ exit = "no"
    /\ now = 0
    /\ added = <<>>
    /\ watch = [op |-> "watch", phase |-> "head", isRunning |-> TRUE,
                iteration |-> 0, found |-> TRUE, failed |-> FALSE,
                statuses |-> <<>>]
    /\ session \in SessionFiles \cup {Malformed}
    /\ \E f \in [Pids -> {"running", "closed"}] :
          procs = [pid \in Pids |-> osProcess(pid, f[pid])]

\* the loop test and the synchronous part of an iteration: readSession and
\* the liveness probes, up to `await Promise.all`
WatchLoopHead ==
    /\ watch.op = "watch"
    /\ watch.phase = "head"
    /\ IF ~watchLoopTest(watch)
       THEN watch' = [watch EXCEPT !.phase = "done"]
       ELSE /\ watch.iteration < MaxRefresh
            /\ IF readSessionOutcome(session) = "null"
               THEN \* break
                    watch' = [watch EXCEPT !.phase = "done", !.found = FALSE]
               ELSE IF readSessionOutcome(session) # "document"
               THEN \* readSession throws: run's catch, process.exit(1)
                    watch' = [watch EXCEPT !.phase = "done", !.failed = TRUE]
               ELSE watch' = [watch EXCEPT
                                 !.phase = "display",
                                 !.statuses = processesWithStatus(
                                                  readSession(session), procs)]
    /\ UNCHANGED <<call, config, items, pc, err, sortCalled, sorted, idx, stage, manifest,
                   manifest0, snapshot, tgz, outputs, procs, childProcesses,
                   parallelGroups, parResult, session, sessionStarted, exit,
                   now, added>>

\* the rest of the iteration: displayProcesses, iteration++, then the sleep
\* unless the flag was cleared
WatchDisplay ==
    /\ watch.op = "watch"
    /\ watch.phase = "display"
    /\ watch' = [watch EXCEPT !.iteration = @ + 1,
                              !.phase = IF watch.isRunning THEN "sleep" ELSE "head"]
    /\ UNCHANGED <<call, config, items, pc, err, sortCalled, sorted, idx, stage, manifest,
                   manifest0, snapshot, tgz, outputs, procs, childProcesses,
                   parallelGroups, parResult, session, sessionStarted, exit,
                   now, added>>

\* the setTimeout of the sleep fires
WatchWake ==
    /\ watch.op = "watch"
    /\ watch.phase = "sleep"
    /\ watch' = [watch EXCEPT !.phase = "head"]
    /\ UNCHANGED <<call, config, items, pc, err, sortCalled, sorted, idx, stage, manifest,
                   manifest0, snapshot, tgz, outputs, procs, childProcesses,
                   parallelGroups, parResult, session, sessionStarted, exit,
                   now, added>>

\* SIGINT or SIGTERM while the loop is suspended at an await: the handler
\* clears the flag
WatchSignal ==
    /\ watch.op = "watch"
    /\ watch.phase \in {"display", "sleep"}
    /\ watch.isRunning
    /\ watch' = [watch EXCEPT !.isRunning = FALSE]
    /\ UNCHANGED <<call, config, items, pc, err, sortCalled, sorted, idx, stage, manifest,
                   manifest0, snapshot, tgz, outputs, procs, childProcesses,
                   parallelGroups, parResult, session, sessionStarted, exit,
                   now, added>>

\* the loop, another program that deletes the session file, and recorded
\* processes that end
NextRefresh ==
    \/ WatchLoopHead
    \/ WatchDisplay
    \/ WatchWake
    \/ WatchSignal
    \/ SessionDelete
    \/ Exit

SpecRefresh == InitRefresh /\ [][NextRefresh]_vars

\* C36: the auto-refresh loop never changes the session file and sends no
\* signal that changes a process; once SIGINT or SIGTERM has cleared its flag
\* it finishes the iteration in progress and starts no other; it also stops
\* when it finds no session file.
C36_RefreshLoopReadOnly ==
    /\ [][watch' # watch => (session' = session /\ procs' = procs)]_vars
    /\ [][~watch.isRunning =>
             /\ watch'.statuses = watch.statuses
             /\ watch'.phase \in {watch.phase, "head", "done"}
             /\ watch'.iteration =
                    watch.iteration + (IF watch.phase = "display" /\ watch' # watch
                                       THEN 1 ELSE 0)]_vars
    /\ [][(watch.phase = "head" /\ watch' # watch /\ watch.isRunning
           /\ ~session.exists) => (watch'.phase = "done" /\ ~watch'.found)]_vars
    /\ []((watch.phase = "done" /\ ~watch.failed)
             => (~watch.isRunning \/ ~watch.found))

\* the loop was stopped by a signal during its second sleep
C36_Witness ==
    /\ watch.op = "watch"
    /\ watch.phase = "done"
    /\ ~watch.isRunning
    /\ watch.iteration = 2
    /\ watch.found
    /\ Len(watch.statuses) = 2

(***************************************************************************)
(* The chain process and the watch tool on the same session file           *)
(***************************************************************************)
InitRace ==
    /\ InitWatch
    /\ readSession(session).exists

\* addProcess of the chain process, first half: readSession (it throws
\* without a file, and then writes nothing)
RaceAddRead(r) ==
    /\ call.fn = "none"
    /\ Len(added) < MaxAdds
    /\ readSession(session).exists
    /\ call' = [fn |-> "addProcess", arg |-> r, doc |-> readSession(session)]
    /\ UNCHANGED <<config, items, pc, err, sortCalled, sorted, idx, stage, manifest,
                   manifest0, snapshot, tgz, outputs, procs, childProcesses,
                   parallelGroups, parResult, session, sessionStarted, exit>>
    /\ UNCHANGED toolVars

\* addProcess, second half: the document read earlier, with the record
\* pushed, is written over whatever the file holds now
RaceAddWrite ==
    /\ call.fn = "addProcess"
    /\ session' = addProcess(call.doc, call.arg)
    /\ added' = Append(added, call.arg)
    /\ call' = NoCall
    /\ UNCHANGED <<config, items, pc, err, sortCalled, sorted, idx, stage, manifest,
                   manifest0, snapshot, tgz, outputs, procs, childProcesses,
                   parallelGroups, parResult, sessionStarted, exit, now, watch>>

RaceRead == \E r \in {runningRecord(pid) : pid \in Pids} : RaceAddRead(r)

NextRace ==
    \/ RaceRead
    \/ RaceAddWrite
    \/ Kill
    \/ WatchKillAll
    \/ Exit

SpecRace == InitRace /\ [][NextRace]_vars

\* the list terminateProcess read, with the record of `pid` marked stopped
MarkedStopped(ps, pid) ==
    [i \in DOMAIN ps |->
        IF ps[i].pid = pid THEN [ps[i] EXCEPT !.status = "stopped"] ELSE ps[i]]

\* C39: session writes are unlocked read-modify-write steps, and the watch
\* tool's terminateProcess of a recorded live pid ends by writing back the
\* processes list it read with that record marked stopped, so that a record
\* the chain process appended in between is lost from the file.
C39_WriteBackLosesRecord ==
    [][(watch' # watch /\ watch'.op = "kill" /\ watch'.recorded /\ watch'.alive)
       => session'.processes = MarkedStopped(session.processes, watch'.pid)]_vars

(***************************************************************************)
(* Termination of a chain run (executeChain under run)                     *)
(***************************************************************************)
\* the steps of a run no signal interrupts
NextLive ==
    \/ Run
    \/ ChainValidate
    \/ ChainSort
    \/ BeginItem
    \/ RunStage
    \/ Child
    \/ Close
    \/ Error
    \/ StageSettled
    \/ FinishItem
    \/ NextItem
    \/ RunCatch
    \/ RunEnd

\* the steps of the main process but the sort: the event loop runs every
\* continuation that is ready
MainStep ==
    \/ Run
    \/ ChainValidate
    \/ BeginItem
    \/ RunStage
    \/ Close
    \/ Error
    \/ StageSettled
    \/ FinishItem
    \/ NextItem
    \/ RunCatch
    \/ RunEnd

\* ChainSort is enabled exactly when pc = "sort" and every step of it
\* leaves pc = "sort", so that WF_vars(ChainSort) is the same condition as
\* that pc is not "sort" infinitely often
SortFair == []<>(pc # "sort")

\* a chain run without signals in which every spawned command exits
SpecLive ==
    /\ Init
    /\ [][NextLive]_vars
    /\ WF_vars(MainStep)
    /\ SortFair
    /\ WF_vars(Child)

\* the handles spawned for stage s of the i-th item of the sorted list
SpawnedFor(i, s) == {k \in DOMAIN procs : procs[k].item = i /\ procs[k].stage = s}

\* no command of any stage was spawned more than once
SpawnedOnce ==
    \A i \in DOMAIN sorted : \A s \in DOMAIN sorted[i].commands :
        Cardinality(SpawnedFor(i, s)) \in {0, Len(sorted[i].commands[s].cmds)}

\* executeChain returned (exit "ok") or threw (exit "error"), every child
\* is settled, and the session that was started is ended
ChainOver ==
    /\ pc = "exited"
    /\ exit \in {"ok", "error"}
    /\ (exit = "ok") = (err = "none")
    /\ \A k \in DOMAIN procs : procs[k].st = "closed"
    /\ loadConfig(config).ok => session.exists /\ session.endedAt

====
